---- MODULE Spec2Model ----
(***************************************************************************)
(* Model of the resume parser and ATS scorer (utils/resume_parser.py) and  *)
(* of the upload handler that drives it (app.py).                          *)
(*                                                                         *)
(* Texts are TLA+ strings; characters are one-character strings obtained   *)
(* with SubSeq, so that lower-casing, stripping, splitting and substring   *)
(* tests are computed the way the Python code computes them.               *)
(***************************************************************************)
EXTENDS Integers, Sequences, FiniteSets, TLC

VARIABLES
    pc,              \* position of the upload handler: "idle", "ready", "done"
    file,            \* the uploaded file (name suffix and what each reader yields)
    job_description, \* the job-description text area ("" when left empty)
    fpDown,          \* float64 rounding of the cosine for this input falls below the exact value
    hashSeed,        \* the process's string-hash seed (fixes set iteration order)
    nCalls,          \* number of calculate_ats_score calls made for the current upload
    parsed_data,     \* value returned by get_parsed_data (None or a record)
    trace,           \* operations invoked by the handler, in order
    messages,        \* st.error / st.warning messages surfaced to the user, in order
    rescored,        \* record of a repeated calculate_ats_score call on the same input
    parsed_resume,   \* st.session_state.parsed_resume
    measures,        \* what calculate_ats_score measured on a text, when the rules are run alone
    sheet,           \* the scores the rules give for these measures
    parser,          \* the attributes SECTIONS, SKILLS_DB, ALL_SKILLS of the parser: references
    heap,            \* the mutable objects (lists, sets, dicts) that exist, by reference
    calls,           \* the calls of parser methods in progress or returned
    uploads          \* number of files uploaded in the session so far

\* the objects of the parser and of the calls made on it
objects == <<parser, heap, calls>>

vars == <<pc, file, job_description, fpDown, hashSeed, nCalls, parsed_data,
          trace, messages, rescored, parsed_resume, measures, sheet, objects,
          uploads>>

\* Python's None where a string is expected, and where a record is expected
None == "<None>"

NoneRecord == [none |-> TRUE]

-----------------------------------------------------------------------------
(* Bounds of the model *)

\* pages of a PDF, paragraphs of a DOCX
MaxItems == 2

-----------------------------------------------------------------------------
(* Python string primitives *)

\* the characters m..n of s that exist (a Python slice never fails)
Slice(s, m, n) == SubSeq(s, m, IF n > Len(s) THEN Len(s) ELSE n)

Ch(s, i) == Slice(s, i, i)

MinOf(S) == CHOOSE m \in S : \A n \in S : m <= n

MaxOf(S) == CHOOSE m \in S : \A n \in S : n <= m

UpperAlpha == "ABCDEFGHIJKLMNOPQRSTUVWXYZ"

LowerAlpha == "abcdefghijklmnopqrstuvwxyz"

Digits == "0123456789"

\* the characters of a string, as a set
CharsOf(alphabet) == {Ch(alphabet, i) : i \in 1..Len(alphabet)}

UpperChars == CharsOf(UpperAlpha)

LowerOf == [c \in UpperChars |->
              Ch(LowerAlpha, CHOOSE i \in 1..Len(UpperAlpha) : Ch(UpperAlpha, i) = c)]

LowerChar(c) == IF c \in UpperChars THEN LowerOf[c] ELSE c

RECURSIVE Lower(_)
Lower(s) ==
    IF Len(s) = 0 THEN "" ELSE LowerChar(Ch(s, 1)) \o Lower(SubSeq(s, 2, Len(s)))

IsSpace(c) == c \in {" ", "\n", "\t"}

Strip(s) ==
    LET idx == {i \in 1..Len(s) : ~IsSpace(Ch(s, i))}
    IN  IF idx = {} THEN "" ELSE SubSeq(s, MinOf(idx), MaxOf(idx))

\* Python's `sub in s`
Contains(s, sub) ==
    \E i \in 0..(Len(s) - Len(sub)) : SubSeq(s, i + 1, i + Len(sub)) = sub

\* s.split(sep) for a one-character separator: empty pieces are kept
RECURSIVE SplitOn(_, _)
SplitOn(s, sep) ==
    LET idx == {i \in 1..Len(s) : Ch(s, i) = sep}
    IN  IF idx = {} THEN <<s>>
        ELSE LET m == MinOf(idx)
             IN  <<SubSeq(s, 1, m - 1)>> \o SplitOn(SubSeq(s, m + 1, Len(s)), sep)

\* the members of a set of numbers, in increasing order
Sorted(S) == [k \in 1..Cardinality(S) |-> CHOOSE x \in S : Cardinality({y \in S : y < x}) = k - 1]

\* the maximal runs of positions of s that lie in the set P, in order, as
\* substrings of s
RunsOf(s, P) ==
    LET starts == Sorted({i \in P : (i - 1) \notin P})
        ends   == Sorted({i \in P : (i + 1) \notin P})
    IN  [k \in 1..Len(starts) |-> SubSeq(s, starts[k], ends[k])]

\* s.split(): pieces between runs of whitespace, no empty piece
SplitWs(s) == RunsOf(s, {i \in 1..Len(s) : ~IsSpace(Ch(s, i))})

\* sep.join(parts)
RECURSIVE Join(_, _)
Join(parts, sep) ==
    IF Len(parts) = 0 THEN ""
    ELSE IF Len(parts) = 1 THEN parts[1]
    ELSE parts[1] \o sep \o Join(Tail(parts), sep)

SeqToSet(q) == {q[i] : i \in 1..Len(q)}

RECURSIVE SumSeq(_)
SumSeq(q) == IF Len(q) = 0 THEN 0 ELSE q[1] + SumSeq(Tail(q))

-----------------------------------------------------------------------------
(* The lexicon built by ResumeParser.__init__ *)

SECTIONS ==
    << "education", "experience", "skills", "projects",
       "certifications", "summary", "objective", "work history",
       "professional experience", "technical skills", "achievements",
       "publications", "languages", "interests", "volunteer" >>

Categories ==
    << "programming_languages", "frameworks", "databases", "cloud_devops", "ai_ml" >>

SKILLS_DB ==
    [category \in SeqToSet(Categories) |->
        CASE category = "programming_languages" ->
               { "python", "java", "javascript", "typescript", "c++", "c#", "ruby", "php",
                 "swift", "kotlin", "go", "rust", "scala", "perl", "r", "matlab" }
          [] category = "frameworks" ->
               { "react", "angular", "vue.js", "django", "flask", "spring", "express",
                 "node.js", "next.js", "nuxt.js", "flutter", "tensorflow", "pytorch" }
          [] category = "databases" ->
               { "mysql", "postgresql", "mongodb", "redis", "elasticsearch", "cassandra",
                 "oracle", "sql server", "dynamodb", "firebase" }
          [] category = "cloud_devops" ->
               { "aws", "azure", "gcp", "docker", "kubernetes", "jenkins", "terraform",
                 "ansible", "circleci", "github actions", "gitlab ci" }
          [] category = "ai_ml" ->
               { "machine learning", "deep learning", "nlp", "computer vision",
                 "data science", "neural networks", "reinforcement learning",
                 "statistical analysis", "big data", "data mining" } ]

ALL_SKILLS == UNION {SKILLS_DB[category] : category \in DOMAIN SKILLS_DB}

\* The objects __init__ creates, by reference (a reference is a place in the
\* heap): the list SECTIONS, the five sets of SKILLS_DB, the dict SKILLS_DB
\* and the set ALL_SKILLS
ListObject(items) == [kind |-> "list", items |-> items]

SetObject(items) == [kind |-> "set", items |-> items]

DictObject(items) == [kind |-> "dict", items |-> items]

ParserHeap ==
    <<ListObject(SECTIONS)>>
    \o [i \in 1..Len(Categories) |-> SetObject(SKILLS_DB[Categories[i]])]
    \o <<DictObject([category \in DOMAIN SKILLS_DB |->
                        1 + (CHOOSE i \in 1..Len(Categories) : Categories[i] = category)]),
         SetObject(ALL_SKILLS)>>

ParserAttributes ==
    [SECTIONS |-> 1, SKILLS_DB |-> Len(Categories) + 2, ALL_SKILLS |-> Len(Categories) + 3]

-----------------------------------------------------------------------------
(* Text extraction *)

\* the loop `text = ""; for page in pages: text += page.extract_text() + "\n"`
RECURSIVE ConcatWithNewlines(_)
ConcatWithNewlines(items) ==
    IF Len(items) = 0 THEN ""
    ELSE items[1] \o "\n" \o ConcatWithNewlines(Tail(items))

\* a reader raises when it cannot open the file or when a page yields None
\* (None + "\n" is a TypeError)
ReaderRaises(reader) == ~reader.opens \/ None \in SeqToSet(reader.items)

PdfErrorMessage == "Error extracting text from PDF"

DocxErrorMessage == "Error extracting text from DOCX"

UnsupportedMessage == "Unsupported file format. Please upload PDF or DOCX files."

\* variant of extract_text_from_pdf: PyPDF2 reads the stream where pdfplumber left it
extract_text_from_pdfNoSeek(f) ==
    IF ReaderRaises(f.pdfplumber)
    THEN [text |-> "", messages |-> <<PdfErrorMessage>>, trace |-> <<"pdfplumber">>]
    ELSE LET text == ConcatWithNewlines(f.pdfplumber.items)
         IN  IF Strip(text) # ""
             THEN [text |-> text, messages |-> <<>>, trace |-> <<"pdfplumber">>]
             ELSE IF ReaderRaises(f.pypdf2)
             THEN [text |-> "", messages |-> <<PdfErrorMessage>>,
                   trace |-> <<"pdfplumber", "PyPDF2">>]
             ELSE [text |-> ConcatWithNewlines(f.pypdf2.items), messages |-> <<>>,
                   trace |-> <<"pdfplumber", "PyPDF2">>]

extract_text_from_pdf(f) ==
    IF ReaderRaises(f.pdfplumber)
    THEN [text |-> "", messages |-> <<PdfErrorMessage>>, trace |-> <<"pdfplumber">>]
    ELSE LET text == ConcatWithNewlines(f.pdfplumber.items)
         IN  IF Strip(text) # ""
             THEN [text |-> text, messages |-> <<>>, trace |-> <<"pdfplumber">>]
             ELSE IF ReaderRaises(f.pypdf2)
             THEN [text |-> "", messages |-> <<PdfErrorMessage>>,
                   trace |-> <<"pdfplumber", "seek(0)", "PyPDF2">>]
             ELSE [text |-> ConcatWithNewlines(f.pypdf2.items), messages |-> <<>>,
                   trace |-> <<"pdfplumber", "seek(0)", "PyPDF2">>]

\* the items a reader yields before it raises
ItemsBeforeFailure(reader) ==
    IF ~reader.opens THEN <<>>
    ELSE SubSeq(reader.items, 1,
                MinOf({i \in 1..Len(reader.items) : reader.items[i] = None}
                      \cup {Len(reader.items) + 1}) - 1)

\* variant of extract_text_from_docx: the handler returns the text gathered
\* before the failure instead of ""
extract_text_from_docxPartial(f) ==
    IF ReaderRaises(f.docx)
    THEN [text |-> ConcatWithNewlines(ItemsBeforeFailure(f.docx)),
          messages |-> <<DocxErrorMessage>>, trace |-> <<"docx">>]
    ELSE [text |-> ConcatWithNewlines(f.docx.items), messages |-> <<>>,
          trace |-> <<"docx">>]

extract_text_from_docx(f) ==
    IF ReaderRaises(f.docx)
    THEN [text |-> "", messages |-> <<DocxErrorMessage>>, trace |-> <<"docx">>]
    ELSE [text |-> ConcatWithNewlines(f.docx.items), messages |-> <<>>,
          trace |-> <<"docx">>]

\* variant of extract_text: the suffix is compared as it is written
extract_textCaseSensitive(f) ==
    IF f.suffix = ".pdf" THEN extract_text_from_pdf(f)
    ELSE IF f.suffix \in {".docx", ".doc"} THEN extract_text_from_docx(f)
    ELSE [text |-> "", messages |-> <<UnsupportedMessage>>, trace |-> <<>>]

extract_text(f) ==
    LET file_extension == Lower(f.suffix)
    IN  IF file_extension = ".pdf" THEN extract_text_from_pdf(f)
        ELSE IF file_extension \in {".docx", ".doc"} THEN extract_text_from_docx(f)
        ELSE [text |-> "", messages |-> <<UnsupportedMessage>>, trace |-> <<>>]

-----------------------------------------------------------------------------
(* Python dict with insertion order: keys in order of first insertion *)

EmptyDict == [keys |-> <<>>, val |-> <<>>]

HasKey(d, k) == k \in SeqToSet(d.keys)

\* variant of DictSet: an existing key is taken out and inserted again at the end
DictSetMovesKey(d, k, v) ==
    LET IsOther(i) == d.keys[i] # k
        others == SelectSeq([i \in 1..Len(d.keys) |-> i], IsOther)
    IN  [keys |-> Append([j \in 1..Len(others) |-> d.keys[others[j]]], k),
         val  |-> Append([j \in 1..Len(others) |-> d.val[others[j]]], v)]

\* d[k] = v: an existing key keeps its position and has its value replaced
DictSet(d, k, v) ==
    IF HasKey(d, k)
    THEN [keys |-> d.keys,
          val  |-> [i \in 1..Len(d.keys) |-> IF d.keys[i] = k THEN v ELSE d.val[i]]]
    ELSE [keys |-> Append(d.keys, k), val |-> Append(d.val, v)]

DictGet(d, k) == d.val[CHOOSE i \in 1..Len(d.keys) : d.keys[i] = k]

DictLen(d) == Len(d.keys)

-----------------------------------------------------------------------------
(* Section segmentation *)

\* variant of IsHeaderLine: the whole line is a section term
IsHeaderLineExact(line_lower) == line_lower \in {SECTIONS[i] : i \in 1..Len(SECTIONS)}

\* any(section in line_lower for section in self.SECTIONS)
IsHeaderLine(line_lower) ==
    \E i \in 1..Len(SECTIONS) : Contains(line_lower, SECTIONS[i])

\* variant of Flush: the content is stored even when there is none
FlushAlways(sections, current_section, current_content) ==
    DictSet(sections, current_section, Join(current_content, "\n"))

\* the flush `if current_content: sections[current_section] = '\n'.join(current_content)`
Flush(sections, current_section, current_content) ==
    IF Len(current_content) > 0
    THEN DictSet(sections, current_section, Join(current_content, "\n"))
    ELSE sections

\* the loop over the lines, from line i on, followed by the last flush
RECURSIVE SegmentFrom(_, _, _, _, _)
SegmentFrom(lines, i, sections, current_section, current_content) ==
    IF i > Len(lines)
    THEN Flush(sections, current_section, current_content)
    ELSE LET line == Strip(lines[i])
             line_lower == Lower(line)
         IN  IF line = ""
             THEN SegmentFrom(lines, i + 1, sections, current_section, current_content)
             ELSE IF IsHeaderLine(line_lower)
             THEN SegmentFrom(lines, i + 1,
                              Flush(sections, current_section, current_content),
                              line_lower, <<>>)
             ELSE SegmentFrom(lines, i + 1, sections, current_section,
                              Append(current_content, line))

Segment(text) == SegmentFrom(SplitOn(text, "\n"), 1, EmptyDict, "unknown", <<>>)

\* The three degree patterns.  Each regular expression is a choice between
\* literals once its optional periods are expanded; the literals are listed in
\* the order the regex engine tries them at one position (alternatives left to
\* right, an optional period taken before it is skipped).
degree_patterns ==
    << << "bachelor", "master", "phd", "doctorate",
          "b.s.", "b.s", "bs.", "bs", "b.a.", "b.a", "ba.", "ba",
          "m.s.", "m.s", "ms.", "ms", "m.a.", "m.a", "ma.", "ma",
          "ph.d.", "ph.d", "phd.", "phd",
          "b.tech", "btech", "m.tech", "mtech" >>,
       << "bachelor's", "master's" >>,
       << "degree in", "major in" >> >>

MatchesAt(s, pos, literal) == Slice(s, pos + 1, pos + Len(literal)) = literal

\* first match of re.finditer(pattern, s): leftmost position, then the first
\* literal that matches there; start and end are Python offsets
HasMatch(pattern, s) ==
    \E pos \in 0..(Len(s) - 1) : \E k \in 1..Len(pattern) : MatchesAt(s, pos, pattern[k])

FirstMatch(pattern, s) ==
    LET pos == MinOf({p \in 0..(Len(s) - 1) :
                        \E k \in 1..Len(pattern) : MatchesAt(s, p, pattern[k])})
        k   == MinOf({j \in 1..Len(pattern) : MatchesAt(s, pos, pattern[j])})
    IN  [start |-> pos, end |-> pos + Len(pattern[k])]

\* s.rfind(c, 0, hi)
RFind(s, c, hi) ==
    LET idx == {i \in 0..(hi - 1) : i < Len(s) /\ Ch(s, i + 1) = c}
    IN  IF idx = {} THEN -1 ELSE MaxOf(idx)

\* s.find(c, lo)
Find(s, c, lo) ==
    LET idx == {i \in lo..(Len(s) - 1) : Ch(s, i + 1) = c}
    IN  IF idx = {} THEN -1 ELSE MinOf(idx)

\* variant of DegreeSpan: the closing period is searched from the start of the match
DegreeSpanFromStart(education_text, match) ==
    LET r     == RFind(education_text, ".", match.start) + 1
        start == IF r > 0 THEN r ELSE 0
        e     == Find(education_text, ".", match.start)
        end   == IF e = -1 THEN Len(education_text) ELSE e
    IN  Strip(SubSeq(education_text, start + 1, end))

\* the sentence around a match
DegreeSpan(education_text, match) ==
    LET r     == RFind(education_text, ".", match.start) + 1
        start == IF r > 0 THEN r ELSE 0
        e     == Find(education_text, ".", match.end)
        end   == IF e = -1 THEN Len(education_text) ELSE e
    IN  Strip(SubSeq(education_text, start + 1, end))

\* variant of DegreeInfoFrom: of the patterns from i on, the one whose first
\* match is leftmost in the text is used
DegreeInfoLeftmost(education_text, i) ==
    LET matching == {j \in i..Len(degree_patterns) :
                        HasMatch(degree_patterns[j], education_text)}
        StartOf(j) == FirstMatch(degree_patterns[j], education_text).start
    IN  IF matching = {} THEN None
        ELSE LET first == CHOOSE j \in matching :
                             \A m \in matching :
                                StartOf(j) < StartOf(m) \/ (StartOf(j) = StartOf(m) /\ j <= m)
             IN  DegreeSpan(education_text, FirstMatch(degree_patterns[first], education_text))

\* the loop over degree_patterns from pattern i on; None when nothing is found
\* (a pattern whose first match gives an empty span is passed over)
RECURSIVE DegreeInfoFrom(_, _)
SpanOr(span, education_text, i) ==
    IF span # "" THEN span ELSE DegreeInfoFrom(education_text, i + 1)

DegreeInfoFrom(education_text, i) ==
    IF i > Len(degree_patterns) THEN None
    ELSE IF HasMatch(degree_patterns[i], education_text)
    THEN SpanOr(DegreeSpan(education_text, FirstMatch(degree_patterns[i], education_text)),
                education_text, i)
    ELSE DegreeInfoFrom(education_text, i + 1)

\* the key whose block is mined for a degree
HasEducationKey(sections) == HasKey(sections, "education")

\* `if degree_info: sections['degree'] = degree_info`
WithDegree(sections, degree_info) ==
    IF degree_info # None /\ degree_info # ""
    THEN DictSet(sections, "degree", degree_info)
    ELSE sections

MineDegree(sections) ==
    IF HasEducationKey(sections)
    THEN WithDegree(sections, DegreeInfoFrom(Lower(DictGet(sections, "education")), 1))
    ELSE sections

extract_sections(text) == MineDegree(Segment(text))

-----------------------------------------------------------------------------
(* The language pipeline self.nlp (spaCy) as far as the parser uses it:    *)
(* tokens, sentences, stop words and punctuation.                           *)

PunctChars == CharsOf(",;:!?().")

IsPunctToken(tok) == tok \in PunctChars

\* one whitespace-delimited chunk into tokens: punctuation is split off the
\* front and the end of the chunk, never out of its middle ("node.js", "c++")
RECURSIVE TokenizeChunk(_)
TokenizeChunk(chunk) ==
    IF Len(chunk) = 0 THEN <<>>
    ELSE IF Len(chunk) = 1 THEN <<chunk>>
    ELSE IF Ch(chunk, 1) \in PunctChars
    THEN <<Ch(chunk, 1)>> \o TokenizeChunk(SubSeq(chunk, 2, Len(chunk)))
    ELSE IF Ch(chunk, Len(chunk)) \in PunctChars
    THEN TokenizeChunk(SubSeq(chunk, 1, Len(chunk) - 1)) \o <<Ch(chunk, Len(chunk))>>
    ELSE <<chunk>>

RECURSIVE TokenizeChunks(_)
TokenizeChunks(chunks) ==
    IF Len(chunks) = 0 THEN <<>>
    ELSE TokenizeChunk(chunks[1]) \o TokenizeChunks(Tail(chunks))

\* the tokens of self.nlp(s)
Tokens(s) == TokenizeChunks(SplitWs(s))

\* len(list(doc.sents)): a sentence ends at ".", "!" or "?", and the tokens
\* after the last such mark form one more sentence
SentenceCount(tokens) ==
    LET ends == {i \in 1..Len(tokens) : tokens[i] \in {".", "!", "?"}}
    IN  Cardinality(ends)
        + (IF Len(tokens) > 0 /\ Len(tokens) \notin ends THEN 1 ELSE 0)

\* the words of the pipeline's stop list that the texts of the model use
SpacyStopWords == {"the", "and", "of", "a", "in", "to", "is", "for", "with", "at", "from", "on"}

IsStopToken(tok) == tok \in SpacyStopWords

-----------------------------------------------------------------------------
(* TfidfVectorizer(stop_words='english') and the cosine of the two rows     *)

WordChars == CharsOf(LowerAlpha) \cup UpperChars \cup CharsOf(Digits) \cup {"_"}

IsWordChar(c) == c \in WordChars

\* the matches of the token pattern \b\w\w+\b: maximal runs of word
\* characters, of length two or more
WordRuns(s) ==
    LET IsLong(w) == Len(w) >= 2
    IN  SelectSeq(RunsOf(s, {i \in 1..Len(s) : IsWordChar(Ch(s, i))}), IsLong)

\* the words of sklearn's English stop list that the texts of the model use
SklearnStopWords == {"the", "and", "of", "a", "in", "to", "is", "for", "with", "at", "from", "on"}

\* the analyzer: lower-cased by the caller, tokenised, stop words removed
Analyze(doc) ==
    LET IsKept(w) == w \notin SklearnStopWords
    IN  SelectSeq(WordRuns(doc), IsKept)

\* term frequency of a term in an analysed document
TermCount(terms, t) == Cardinality({i \in 1..Len(terms) : terms[i] = t})

\* sum of f[x] for x in S
RECURSIVE SumOver(_, _)
SumOver(S, f) ==
    IF S = {} THEN 0
    ELSE LET x == CHOOSE y \in S : TRUE IN f[x] + SumOver(S \ {x}, f)

\* fit_transform raises ValueError("empty vocabulary") when no term is left
EmptyVocabulary(a, b) == Len(Analyze(a)) = 0 /\ Len(Analyze(b)) = 0

\* With two documents the smoothed idf is 1 for a term of both documents and
\* 1 + ln(3/2) for a term of one document only; the square of the latter,
\* 1.9753..., is the rational IdfSqNum / IdfSqDen.
IdfSqNum == 79

IdfSqDen == 40

\* dot product of the two unnormalised tf-idf rows (only shared terms count,
\* and their idf is 1); ta and tb are the analysed documents
RawDot(ta, tb) ==
    LET shared == SeqToSet(ta) \cap SeqToSet(tb)
    IN  SumOver(shared, [t \in shared |-> TermCount(ta, t) * TermCount(tb, t)])

\* squared norm of the unnormalised tf-idf row of ta, times IdfSqDen
RawNormSq(ta, tb) ==
    LET shared == SeqToSet(ta) \cap SeqToSet(tb)
        own    == SeqToSet(ta) \ SeqToSet(tb)
    IN  SumOver(shared, [t \in shared |-> IdfSqDen * TermCount(ta, t) * TermCount(ta, t)])
        + SumOver(own, [t \in own |-> IdfSqNum * TermCount(ta, t) * TermCount(ta, t)])

\* the cosine of the two rows as three whole numbers: similarity^2 is
\* IdfSqDen^2 * dot^2 / norms, and same says the documents have the same terms
Cosine(a, b) ==
    LET ta == Analyze(a)
        tb == Analyze(b)
    IN  [dot   |-> RawDot(ta, tb),
         norms |-> RawNormSq(ta, tb) * RawNormSq(tb, ta),
         same  |-> SeqToSet(ta) = SeqToSet(tb)]

\* 625 * dot^2, scaled like the product of the two squared norms
ScaledDotSq(cos) == 625 * IdfSqDen * IdfSqDen * cos.dot * cos.dot

\* k <= similarity * 25, for the exact similarity
AtLeast(cos, k) ==
    \/ k = 0
    \/ cos.dot > 0 /\ cos.norms <= ScaledDotSq(cos) \div (k * k)

\* similarity * 25 is exactly the whole number k >= 1 (possible only when the
\* two documents have the same terms, since 1 + ln(3/2) is transcendental):
\* the float64 product may then fall just below k
OnBoundary(cos, k) ==
    /\ k >= 1
    /\ cos.same
    /\ ScaledDotSq(cos) % (k * k) = 0
    /\ cos.norms = ScaledDotSq(cos) \div (k * k)

\* variant of PointsOf: similarity * 25 is rounded up to the next whole number
PointsOfRoundedUp(cos) ==
    LET k == MaxOf({j \in 0..25 : AtLeast(cos, j)})
    IN  IF k < 25 /\ cos.dot > 0 /\ ~OnBoundary(cos, k) THEN k + 1 ELSE k

\* int(similarity * 25)
PointsOf(cos) ==
    LET k == MaxOf({j \in 0..25 : AtLeast(cos, j)})
    IN  IF OnBoundary(cos, k) /\ fpDown THEN k - 1 ELSE k

\* similarity < 0.3
IsLow(cos) ==
    LET lhs == 100 * IdfSqDen * IdfSqDen * cos.dot * cos.dot
        rhs == 9 * cos.norms
    IN  cos.dot = 0 \/ lhs < rhs \/ (lhs = rhs /\ cos.same /\ fpDown)

-----------------------------------------------------------------------------
(* Iteration order of a Python set of strings *)

\* the distinct elements of q, in order of first occurrence
RECURSIVE Distinct(_)
Distinct(q) ==
    IF Len(q) = 0 THEN <<>>
    ELSE LET front == Distinct(SubSeq(q, 1, Len(q) - 1))
         IN  IF q[Len(q)] \in SeqToSet(front) THEN front ELSE Append(front, q[Len(q)])

Reverse(q) == [i \in 1..Len(q) |-> q[Len(q) + 1 - i]]

Rotate(q, n) ==
    IF Len(q) = 0 THEN q
    ELSE [i \in 1..Len(q) |-> q[((i - 1 + n) % Len(q)) + 1]]

\* list(set(q)): the elements of q in the order the hash table yields them,
\* which is fixed by the elements and by the process's hash seed
SetOrder(q, seed) ==
    LET d == Rotate(Distinct(q), seed \div 2)
    IN  IF seed % 2 = 1 THEN Reverse(d) ELSE d

-----------------------------------------------------------------------------
(* calculate_ats_score *)

FbSections == "Missing key sections - add more sections to your resume"
FbBrief    == "Content is too brief - add more detailed descriptions"
FbHeaders  == "Use clear section headers to organize your resume"
FbShort    == "Resume is too short - aim for 300-700 words"
FbLong     == "Resume might be too long - consider condensing"
FbVerbs    == "Use more action verbs to describe your experiences"
FbMetrics  == "Add more quantifiable achievements and metrics"
FbSkills   == "Add more technical skills relevant to your field"
FbDiverse  == "Consider adding more diverse technical skills"
FbCore     == "Add core technical skills (programming languages/frameworks)"
FbKeywords == "Consider adding these keywords: "
FbLowMatch == "Resume doesn't match job description well - tailor it more"
FbReview   == "Consider professional resume review for major improvements"
FbMajor    == "Significant improvements needed in content and formatting"
KeywordWarning == "Error in keyword analysis"

Max0(n) == IF n > 0 THEN n ELSE 0

\* variant of SkillsIn: every category is matched against the whole lexicon
SkillsInAnyCategory(text_lower) ==
    [category \in DOMAIN SKILLS_DB |->
        {skill \in ALL_SKILLS : Contains(text_lower, skill)}]

\* skills_by_category: per category, the lexicon terms that are substrings of
\* the lower-cased text
SkillsIn(text_lower) ==
    [category \in DOMAIN SKILLS_DB |->
        {skill \in SKILLS_DB[category] : Contains(text_lower, skill)}]

SkillsByCategory(text) == SkillsIn(Lower(text))

\* Format Score (20 points), from len(sections), len(list(doc.sents)) and
\* section_headers
FormatOf(n_sections, n_sents, section_headers) ==
    LET r1 == n_sections < 4
        r2 == n_sents < 10
        r3 == section_headers < 4
    IN  [points   |-> Max0(20 - (IF r1 THEN 5 ELSE 0) - (IF r2 THEN 5 ELSE 0)
                          - (IF r3 THEN 5 ELSE 0)),
         feedback |-> (IF r1 THEN <<FbSections>> ELSE <<>>)
                      \o (IF r2 THEN <<FbBrief>> ELSE <<>>)
                      \o (IF r3 THEN <<FbHeaders>> ELSE <<>>)]

\* sum(1 for line in text.split('\n') if line.strip().lower() in self.SECTIONS)
HeaderLineCount(lines) ==
    Cardinality({i \in 1..Len(lines) : Lower(Strip(lines[i])) \in SeqToSet(SECTIONS)})

FormatBlock(text) ==
    FormatOf(DictLen(extract_sections(text)),
             SentenceCount(Tokens(Lower(text))),
             HeaderLineCount(SplitOn(text, "\n")))

action_verbs ==
    {"developed", "implemented", "created", "managed", "led",
     "designed", "improved", "increased", "reduced", "achieved"}

DigitChars == CharsOf(Digits)

\* re.search of a metric pattern: a digit next to the pattern's literal
DigitBefore(text, literal) ==
    \E i \in 1..Len(text) :
        Ch(text, i) \in DigitChars /\ Slice(text, i + 1, i + Len(literal)) = literal

DigitAfter(text, literal) ==
    \E i \in 1..Len(text) :
        Slice(text, i, i + Len(literal) - 1) = literal
        /\ Ch(text, i + Len(literal)) \in DigitChars

\* number of the four metrics_patterns that match somewhere in the text
MetricsCount(text) ==
      (IF DigitBefore(text, "%") THEN 1 ELSE 0)
    + (IF DigitAfter(text, "$") THEN 1 ELSE 0)
    + (IF DigitBefore(Lower(text), " years") THEN 1 ELSE 0)
    + (IF DigitBefore(text, "+") THEN 1 ELSE 0)

\* variant of ContentOf: the too-short rule compares with 30
ContentOfShortBelow30(words, verb_count, metrics_count) ==
    LET short == words < 30
        long  == ~short /\ words > 1000
        r2 == verb_count < 5
        r3 == metrics_count < 3
    IN  [points   |-> Max0(30 - (IF short THEN 10 ELSE 0) - (IF long THEN 5 ELSE 0)
                          - (IF r2 THEN 10 ELSE 0) - (IF r3 THEN 5 ELSE 0)),
         feedback |-> (IF short THEN <<FbShort>> ELSE <<>>)
                      \o (IF long THEN <<FbLong>> ELSE <<>>)
                      \o (IF r2 THEN <<FbVerbs>> ELSE <<>>)
                      \o (IF r3 THEN <<FbMetrics>> ELSE <<>>)]

\* Content Score (30 points), from the word, action-verb and metric counts
ContentOf(words, verb_count, metrics_count) ==
    LET short == words < 300
        long  == ~short /\ words > 1000
        r2 == verb_count < 5
        r3 == metrics_count < 3
    IN  [points   |-> Max0(30 - (IF short THEN 10 ELSE 0) - (IF long THEN 5 ELSE 0)
                          - (IF r2 THEN 10 ELSE 0) - (IF r3 THEN 5 ELSE 0)),
         feedback |-> (IF short THEN <<FbShort>> ELSE <<>>)
                      \o (IF long THEN <<FbLong>> ELSE <<>>)
                      \o (IF r2 THEN <<FbVerbs>> ELSE <<>>)
                      \o (IF r3 THEN <<FbMetrics>> ELSE <<>>)]

\* sum(1 for token in doc if token.text.lower() in action_verbs)
VerbCount(tokens) ==
    Cardinality({i \in 1..Len(tokens) : Lower(tokens[i]) \in action_verbs})

ContentBlock(text) ==
    ContentOf(Len(SplitWs(text)), VerbCount(Tokens(Lower(text))), MetricsCount(text))

\* variant of SkillsOf: the core rule is an elif of the rules on the total
SkillsOfCoreLast(total_skills, no_core) ==
    LET few  == total_skills < 5
        some == ~few /\ total_skills < 10
        core == ~few /\ ~some /\ no_core
    IN  [points   |-> Max0(25 - (IF few THEN 15 ELSE 0) - (IF some THEN 10 ELSE 0)
                          - (IF core THEN 5 ELSE 0)),
         feedback |-> (IF few THEN <<FbSkills>> ELSE <<>>)
                      \o (IF some THEN <<FbDiverse>> ELSE <<>>)
                      \o (IF core THEN <<FbCore>> ELSE <<>>)]

\* Skills Score (25 points), from total_skills and from whether both core
\* categories are empty
SkillsOf(total_skills, no_core) ==
    LET few  == total_skills < 5
        some == ~few /\ total_skills < 10
    IN  [points   |-> Max0(25 - (IF few THEN 15 ELSE 0) - (IF some THEN 10 ELSE 0)
                          - (IF no_core THEN 5 ELSE 0)),
         feedback |-> (IF few THEN <<FbSkills>> ELSE <<>>)
                      \o (IF some THEN <<FbDiverse>> ELSE <<>>)
                      \o (IF no_core THEN <<FbCore>> ELSE <<>>)]

\* sum(len(skills) for skills in skills_by_category.values())
TotalSkills(skills_by_category) ==
    SumOver(DOMAIN skills_by_category,
            [category \in DOMAIN skills_by_category |->
                Cardinality(skills_by_category[category])])

SkillsBlock(skills_by_category) ==
    SkillsOf(TotalSkills(skills_by_category),
             /\ skills_by_category["programming_languages"] = {}
             /\ skills_by_category["frameworks"] = {})

\* variant of Truthy: only None counts as no job description
TruthyNotNone(str) == str # None

\* `if job_description:` is false for None and for the empty string
Truthy(str) == str # None /\ str # ""

\* variant of MissingIn: a term of any length may be missing
MissingInAnyLength(text_lower, terms) ==
    LET IsMissing(term) == ~Contains(text_lower, term)
    IN  SelectSeq(terms, IsMissing)

\* [term for term in set(key_terms) if term not in text.lower() and len(term) > 3]
MissingIn(text_lower, terms) ==
    LET IsMissing(term) == ~Contains(text_lower, term) /\ Len(term) > 3
    IN  SelectSeq(terms, IsMissing)

MissingTerms(text, jd) ==
    LET IsKey(tok) == ~IsStopToken(tok) /\ ~IsPunctToken(tok)
        key_terms  == SelectSeq(Tokens(Lower(jd)), IsKey)
    IN  MissingIn(Lower(text), SetOrder(key_terms, hashSeed))

FirstFive(q) == SubSeq(q, 1, IF Len(q) < 5 THEN Len(q) ELSE 5)

\* Keyword and Relevance Score (25 points)
KeywordOf(cos, missing_terms) ==
    [points   |-> Max0(PointsOf(cos)),
     feedback |-> (IF Len(missing_terms) > 0
                   THEN <<FbKeywords \o Join(FirstFive(missing_terms), ", ")>>
                   ELSE <<>>)
                  \o (IF IsLow(cos) THEN <<FbLowMatch>> ELSE <<>>),
     messages |-> <<>>,
     trace    |-> <<"fit_transform">>]

\* `keyword_points = 25` with the `if job_description:` block skipped
KeywordNotAsked ==
    [points |-> 25, feedback |-> <<>>, messages |-> <<>>, trace |-> <<>>]

\* the except branch: `st.warning(...)`, `keyword_points = 15`
KeywordFailed ==
    [points |-> 15, feedback |-> <<>>, messages |-> <<KeywordWarning>>,
     trace |-> <<"fit_transform">>]

\* variant of KeywordBlock: the except branch leaves keyword_points at 0
KeywordBlockNoDefault(text, jd) ==
    IF ~Truthy(jd)
    THEN [points |-> 25, feedback |-> <<>>, messages |-> <<>>, trace |-> <<>>]
    ELSE IF EmptyVocabulary(Lower(text), Lower(jd))
    THEN [points |-> 0, feedback |-> <<>>, messages |-> <<KeywordWarning>>,
          trace |-> <<"fit_transform">>]
    ELSE KeywordOf(Cosine(Lower(text), Lower(jd)), MissingTerms(text, jd))

KeywordBlock(text, jd) ==
    IF ~Truthy(jd) THEN KeywordNotAsked
    ELSE IF EmptyVocabulary(Lower(text), Lower(jd)) THEN KeywordFailed
    ELSE KeywordOf(Cosine(Lower(text), Lower(jd)), MissingTerms(text, jd))

\* variant of TotalFeedback: one line, the one of the lowest band
TotalFeedbackOneLine(total_score) ==
    IF total_score < 50 THEN <<FbMajor>>
    ELSE IF total_score < 70 THEN <<FbReview>> ELSE <<>>

\* variant of TotalFeedback: the two rules in the other order
TotalFeedbackSwapped(total_score) ==
    (IF total_score < 50 THEN <<FbMajor>> ELSE <<>>)
    \o (IF total_score < 70 THEN <<FbReview>> ELSE <<>>)

\* the trailing rules on the total
TotalFeedback(total_score) ==
    (IF total_score < 70 THEN <<FbReview>> ELSE <<>>)
    \o (IF total_score < 50 THEN <<FbMajor>> ELSE <<>>)

\* variant of ScoreRecord: the total is taken before the keyword points are known
ScoreRecordEarlyTotal(f, c, s, k, skills_by_category) ==
    LET total == f.points + c.points + s.points
    IN  [scores |->
            [format_score    |-> f.points,
             content_score   |-> c.points,
             skills_score    |-> s.points,
             keyword_score   |-> k.points,
             relevance_score |-> 0,
             total_score     |-> total,
             feedback        |-> f.feedback \o c.feedback \o s.feedback
                                 \o k.feedback \o TotalFeedback(total),
             detected_skills |-> skills_by_category],
         messages |-> k.messages,
         trace    |-> k.trace]

\* variant of ScoreRecord: the feedback list is kept between calls, so a call
\* made after a record is held starts from that record's lines
ScoreRecordSharedFeedback(f, c, s, k, skills_by_category) ==
    LET total == f.points + c.points + s.points + k.points
        kept  == IF parsed_data # NoneRecord THEN parsed_data.scores.feedback ELSE <<>>
    IN  [scores |->
            [format_score    |-> f.points,
             content_score   |-> c.points,
             skills_score    |-> s.points,
             keyword_score   |-> k.points,
             relevance_score |-> 0,
             total_score     |-> total,
             feedback        |-> kept \o f.feedback \o c.feedback \o s.feedback
                                 \o k.feedback \o TotalFeedback(total),
             detected_skills |-> skills_by_category],
         messages |-> k.messages,
         trace    |-> k.trace]

\* the record `scores` and, beside it, what the call showed to the user
ScoreRecord(f, c, s, k, skills_by_category) ==
    LET total == f.points + c.points + s.points + k.points
    IN  [scores |->
            [format_score    |-> f.points,
             content_score   |-> c.points,
             skills_score    |-> s.points,
             keyword_score   |-> k.points,
             relevance_score |-> 0,
             total_score     |-> total,
             feedback        |-> f.feedback \o c.feedback \o s.feedback
                                 \o k.feedback \o TotalFeedback(total),
             detected_skills |-> skills_by_category],
         messages |-> k.messages,
         trace    |-> k.trace]

WithSkills(text, jd, skills_by_category) ==
    ScoreRecord(FormatBlock(text), ContentBlock(text), SkillsBlock(skills_by_category),
                KeywordBlock(text, jd), skills_by_category)

calculate_ats_score(text, jd) == WithSkills(text, jd, SkillsByCategory(text))

-----------------------------------------------------------------------------
(* Flat skill extraction *)

\* two or three consecutive tokens of s, written with one space between them
JoinedSpans(s) ==
    LET tokens == Tokens(s)
        spans  == {sp \in (1..Len(tokens)) \X (2..3) : sp[1] + sp[2] - 1 <= Len(tokens)}
    IN  {Join(SubSeq(tokens, sp[1], sp[1] + sp[2] - 1), " ") : sp \in spans}

\* variant of NounChunkTexts: the text of a span is its tokens joined by one
\* space, whatever stands between them in s
NounChunkTextsRejoined(s) == JoinedSpans(s)

\* texts of the spans the pipeline may report as noun chunks of s: two or
\* three consecutive tokens.  The text of a span is the piece of s from its
\* first token to its last, with the whitespace s has there; a span whose
\* tokens are not one space apart has a text with another separator, which
\* is no lexicon entry, and is left out.
NounChunkTexts(s) == {phrase \in JoinedSpans(s) : Contains(s, phrase)}

extract_skills(text) ==
    LET tokens == Tokens(Lower(text))
    IN  {tok \in SeqToSet(tokens) : tok \in ALL_SKILLS}
        \cup {phrase \in NounChunkTexts(Lower(text)) : phrase \in ALL_SKILLS}

-----------------------------------------------------------------------------
(* get_parsed_data and the upload handler *)

\* variant of ParsedRecord: the text is scored before it is segmented
ParsedRecordScoredFirst(x, sc) ==
    [value |->
        [full_text  |-> x.text,
         sections   |-> extract_sections(x.text),
         skills     |-> extract_skills(x.text),
         word_count |-> Len(SplitWs(x.text)),
         scores     |-> sc.scores],
     messages |-> x.messages \o sc.messages,
     trace |-> <<"extract_text">> \o x.trace
               \o <<"calculate_ats_score">> \o sc.trace
               \o <<"extract_sections", "extract_skills">>]

\* what get_parsed_data returns for the extracted text x, scored as sc
ParsedRecord(x, sc) ==
    [value |->
        [full_text  |-> x.text,
         sections   |-> extract_sections(x.text),
         skills     |-> extract_skills(x.text),
         word_count |-> Len(SplitWs(x.text)),
         scores     |-> sc.scores],
     messages |-> x.messages \o sc.messages,
     trace |-> <<"extract_text">> \o x.trace
               \o <<"extract_sections", "extract_skills", "calculate_ats_score">>
               \o sc.trace]

\* variant of ParsedFrom: the record is built whatever the text
ParsedFromUnchecked(x) == ParsedRecord(x, calculate_ats_score(x.text, None))

\* `if not text: return None`
ParsedFrom(x) ==
    IF x.text = ""
    THEN [value |-> NoneRecord, messages |-> x.messages,
          trace |-> <<"extract_text">> \o x.trace]
    ELSE ParsedRecord(x, calculate_ats_score(x.text, None))

get_parsed_data(f) == ParsedFrom(extract_text(f))

CouldNotParseMessage == "Could not parse the resume. Please check the file format and try again."

-----------------------------------------------------------------------------
(* Inputs *)

\* page or paragraph texts
Blocks ==
    { "",
      "the",
      "Skills\npython java",
      "SKILLS\nLed javascript, aws",
      "Education\nB.S. in CS. Of" }

Documents == UNION {[1..n -> Blocks] : n \in 0..MaxItems}

\* what a reader (pdfplumber, PyPDF2, python-docx) makes of the file: it
\* fails to open it, or yields one text per page or paragraph (None for a
\* page without a text layer)
HashSeeds == {0, 1}

NoReader == [opens |-> FALSE, items |-> <<>>]

Reads(items) == [opens |-> TRUE, items |-> items]

FewReaders ==
    { NoReader, Reads(<<None>>), Reads(<<"">>), Reads(<<"the">>),
      Reads(<<"python java", None>>) }

\* what python-docx makes of some longer documents
LongerReaders ==
    { Reads(<<"Education\nB.S. in Computer Science from State University.">>),
      Reads(<<"the", "Skills\npython java", "Education\nB.S. in CS. Of">>),
      Reads(<<"the", "Inexperienced staff\njava", "Projects", "Skills", "sql">>),
      Reads(<<"Led 10% 20% 30%">>),
      Reads(<<"Education\nDegree in CS. Holds PhD">>),
      Reads(<<"Education\nDegree in Art">>),
      Reads(<<"Education\nNone yet">>),
      Reads(<<"sql", "server">>),
      Reads(<<"Skills\npython", "Projects\nweb", "SKILLS\njava">>),
      Reads(<<"Projects", "Skills\nsql">>),
      Reads(<<"Education:\nM.S. in AI">>) }

Files ==
    \* every document, read without trouble
    {[suffix |-> ".docx", pdfplumber |-> NoReader, pypdf2 |-> NoReader, docx |-> Reads(d)] :
        d \in Documents}
    \* PDF files the two readers make different things of
    \cup {[suffix |-> x, pdfplumber |-> a, pypdf2 |-> b, docx |-> NoReader] :
        x \in {".pdf", ".PDF"}, a \in FewReaders, b \in FewReaders}
    \cup {[suffix |-> x, pdfplumber |-> NoReader, pypdf2 |-> NoReader, docx |-> a] :
        x \in {".doc", ".DOCX"}, a \in FewReaders \cup LongerReaders}
    \* other files
    \cup {[suffix |-> x, pdfplumber |-> a, pypdf2 |-> a, docx |-> a] :
        x \in {".txt", ""}, a \in {Reads(<<"the">>)}}

\* what the user may type as a job description, beside a copy of the resume
JobDescriptions ==
    { "",
      "the",
      "Python",
      "aws Python",
      "python kubernetes terraform ansible jenkins docker oracle" }

-----------------------------------------------------------------------------
(* The state machine *)

Init ==
    /\ pc = "idle"
    /\ file = NoneRecord
    /\ job_description = ""
    /\ fpDown = FALSE
    /\ hashSeed \in HashSeeds
    /\ nCalls = 0
    /\ parsed_data = NoneRecord
    /\ trace = <<>>
    /\ messages = <<>>
    /\ rescored = NoneRecord
    /\ parsed_resume = NoneRecord
    /\ measures = NoneRecord
    /\ sheet = NoneRecord
    /\ parser = ParserAttributes
    /\ heap = ParserHeap
    /\ calls = <<>>
    /\ uploads = 0

\* the user picks a file and types a job description
Upload(f, jd, fp) ==
    /\ pc = "idle"
    /\ pc' = "ready"
    /\ file' = f
    /\ job_description' = jd
    /\ fpDown' = fp
    /\ nCalls' = 0
    /\ parsed_data' = NoneRecord
    /\ trace' = <<>>
    /\ messages' = <<>>
    /\ rescored' = NoneRecord
    /\ uploads' = uploads + 1
    /\ UNCHANGED <<hashSeed, parsed_resume, measures, sheet, objects>>

\* `if parsed_data:` with a job description: the scores are replaced, the
\* record is stored and the AI analysis follows
StoreRescored(got, again) ==
    /\ parsed_data' = [got.value EXCEPT !.scores = again.scores]
    /\ parsed_resume' = parsed_data'
    /\ nCalls' = 2
    /\ messages' = got.messages \o again.messages
    /\ trace' = <<"get_parsed_data">> \o got.trace
                \o <<"calculate_ats_score">> \o again.trace
                \o <<"store", "ai_analysis">>

\* `if parsed_data:` without a job description
StoreParsed(got) ==
    /\ parsed_data' = got.value
    /\ parsed_resume' = got.value
    /\ nCalls' = 1
    /\ messages' = got.messages
    /\ trace' = <<"get_parsed_data">> \o got.trace \o <<"store", "ai_analysis">>

\* variant of CouldNotParse: the None is stored in the session
CouldNotParseStoresNone(got) ==
    /\ parsed_data' = NoneRecord
    /\ parsed_resume' = NoneRecord
    /\ nCalls' = 0
    /\ messages' = got.messages \o <<CouldNotParseMessage>>
    /\ trace' = <<"get_parsed_data">> \o got.trace

\* the else branch: st.error("Could not parse the resume. ...")
CouldNotParse(got) ==
    /\ parsed_data' = NoneRecord
    /\ parsed_resume' = parsed_resume
    /\ nCalls' = 0
    /\ messages' = got.messages \o <<CouldNotParseMessage>>
    /\ trace' = <<"get_parsed_data">> \o got.trace

HandleParsed(got) ==
    IF got.value = NoneRecord THEN CouldNotParse(got)
    ELSE IF Truthy(job_description)
    THEN StoreRescored(got, calculate_ats_score(got.value.full_text, job_description))
    ELSE StoreParsed(got)

\* "Analyze Resume" is pressed: render_resume_upload_section
AnalyzeResume ==
    /\ pc = "ready"
    /\ HandleParsed(get_parsed_data(file))
    /\ pc' = "done"
    /\ UNCHANGED <<file, job_description, fpDown, hashSeed, rescored, measures, sheet,
                   objects, uploads>>

\* calculate_ats_score is called once more with the same text and job description
ScoreAgain ==
    /\ pc = "done"
    /\ parsed_data # NoneRecord
    /\ rescored = NoneRecord
    /\ rescored' = calculate_ats_score(parsed_data.full_text,
                                       IF Truthy(job_description) THEN job_description ELSE None)
    /\ nCalls' = nCalls + 1
    /\ UNCHANGED <<pc, file, job_description, fpDown, hashSeed, parsed_data,
                   trace, messages, parsed_resume, measures, sheet, objects, uploads>>

\* what the user may type for file f: a listed job description or a copy of
\* the text of the resume
JobDescriptionsFor(f) == JobDescriptions \cup {extract_text(f).text}

\* the count vector of an analysed document, in the order of its vocabulary
CountsOf(terms) == {TermCount(terms, t) : t \in SeqToSet(terms)}

\* Two documents with the same terms, each term c times in both, have the
\* exact similarity 1. In float64 the n squares of c / sqrt(n * c * c) add
\* up to less than 1 for these <<c, n>> (c up to 3, n up to 12),
\* and to 1 or more for the others.
BelowOne ==
    {<<c, n>> : c \in {1, 2}, n \in {2, 5, 7, 8, 10}} \cup {<<3, n>> : n \in {5, 6, 7, 10}}

\* whether the float64 similarity of ta and tb may fall below its exact value:
\* never when a term of one is missing from the other (fpDown is then not
\* read), as tabulated for uniform counts, either way otherwise
RoundingsOf(ta, tb) ==
    IF SeqToSet(ta) # SeqToSet(tb) \/ Len(ta) = 0 THEN {FALSE}
    ELSE IF /\ CountsOf(ta) = CountsOf(tb)
            /\ CountsOf(ta) \in {{1}, {2}, {3}}
            /\ Cardinality(SeqToSet(ta)) <= 12
    THEN {(\E c \in CountsOf(ta) : <<c, Cardinality(SeqToSet(ta))>> \in BelowOne)}
    ELSE BOOLEAN

\* without a job description no similarity is computed and nothing is rounded
RoundingsFor(f, jd) ==
    IF Truthy(jd)
    THEN RoundingsOf(Analyze(Lower(extract_text(f).text)), Analyze(Lower(jd)))
    ELSE {FALSE}

Next ==
    \/ /\ pc = "idle"
       /\ \E f \in Files :
             \E jd \in JobDescriptionsFor(f) :
                \E fp \in RoundingsFor(f, jd) : Upload(f, jd, fp)
    \/ AnalyzeResume
    \/ ScoreAgain

Spec == Init /\ [][Next]_vars

-----------------------------------------------------------------------------
(* One session with several uploads: st.session_state lives on from one run  *)
(* of the script to the next, the variables of the handler do not            *)

\* files uploaded in one session
MaxUploads == 2

SessionFiles ==
    {[suffix |-> ".docx", pdfplumber |-> NoReader, pypdf2 |-> NoReader, docx |-> a] :
        a \in {Reads(<<"Skills\npython java">>), Reads(<<"the">>), Reads(<<"">>), NoReader}}
    \cup {[suffix |-> ".txt", pdfplumber |-> a, pypdf2 |-> a, docx |-> a] :
            a \in {Reads(<<"the">>)}}

SessionJobDescriptions == {"", "Python"}

\* the user picks another file after an analysis
UploadNext(f, jd, fp) ==
    /\ pc = "done"
    /\ uploads < MaxUploads
    /\ pc' = "ready"
    /\ file' = f
    /\ job_description' = jd
    /\ fpDown' = fp
    /\ nCalls' = 0
    /\ parsed_data' = NoneRecord
    /\ trace' = <<>>
    /\ messages' = <<>>
    /\ rescored' = NoneRecord
    /\ uploads' = uploads + 1
    /\ UNCHANGED <<hashSeed, parsed_resume, measures, sheet, objects>>

SessionNext ==
    \/ /\ pc = "idle"
       /\ \E f \in SessionFiles : \E jd \in SessionJobDescriptions :
             \E fp \in RoundingsFor(f, jd) : Upload(f, jd, fp)
    \/ \E f \in SessionFiles : \E jd \in SessionJobDescriptions :
          \E fp \in RoundingsFor(f, jd) : UploadNext(f, jd, fp)
    \/ AnalyzeResume

SessionSpec == Init /\ [][SessionNext]_vars

-----------------------------------------------------------------------------
(* The scoring rules run alone, on what calculate_ats_score measures on a text *)

\* detected skills, given per category (ai_ml is left empty)
SkillsSheet(languages, frameworks, databases, cloud) ==
    [category \in DOMAIN SKILLS_DB |->
        CASE category = "programming_languages" -> languages
          [] category = "frameworks" -> frameworks
          [] category = "databases" -> databases
          [] category = "cloud_devops" -> cloud
          [] OTHER -> {}]

\* none, one, four, five without a core skill, nine and ten; a text that
\* holds a skill holds the skills that are substrings of it ("r" with "react")
SkillsSheets ==
    { SkillsSheet({}, {}, {}, {}),
      SkillsSheet({"r"}, {}, {}, {}),
      SkillsSheet({"r", "go"}, {"react"}, {}, {"aws"}),
      SkillsSheet({}, {}, {"mysql", "dynamodb"}, {"aws", "gcp", "jenkins"}),
      SkillsSheet({"python", "java", "r"}, {"react", "flask"}, {"mysql", "redis"},
                  {"aws", "docker"}),
      SkillsSheet({"python", "java", "r"}, {"react", "flask"}, {"mysql", "redis"},
                  {"aws", "docker", "gcp"}) }

\* how the keyword block ended: skipped, raised, or with a similarity (as
\* Cosine gives it) and the missing terms.  The similarities are 0 (no common
\* term), near 0.2 (one common term, twelve more in the resume), near 0.58
\* (one common term, one more in the resume) and 1 (the same terms).
KeywordOutcomes ==
    { [kind |-> "skipped", cos |-> [dot |-> 0, norms |-> 0, same |-> FALSE],
       missing_terms |-> <<>>],
      [kind |-> "raised", cos |-> [dot |-> 0, norms |-> 0, same |-> FALSE],
       missing_terms |-> <<>>],
      [kind |-> "similarity", cos |-> [dot |-> 0, norms |-> 0, same |-> FALSE],
       missing_terms |-> <<"kubernetes", "terraform">>],
      [kind |-> "similarity", cos |-> [dot |-> 1, norms |-> 39520, same |-> FALSE],
       missing_terms |-> <<"kubernetes">>],
      [kind |-> "similarity", cos |-> [dot |-> 1, norms |-> 4760, same |-> FALSE],
       missing_terms |-> <<>>],
      [kind |-> "similarity", cos |-> [dot |-> 1, norms |-> 1600, same |-> TRUE],
       missing_terms |-> <<>>] }

\* len(text.split()), len(sections), len(list(doc.sents)), section_headers,
\* verb_count and metrics_count, around the thresholds of the rules
WordCounts == {50, 299, 300, 1000, 1001}

SectionCounts == {1, 3, 4}

SentenceCounts == {1, 9, 10}

HeaderCounts == {0, 3, 4}

VerbCounts == {0, 4, 5}

MetricCounts == {2, 3}

\* a text without a word: nothing is found in it
BlankMeasures ==
    [n_sections : {0}, n_sents : {0}, section_headers : {0}, words : {0},
     verb_count : {0}, metrics_count : {0},
     skills_by_category : {SkillsSheet({}, {}, {}, {})},
     keyword : {k \in KeywordOutcomes : k.cos.dot = 0}]

Measures ==
    BlankMeasures
    \cup [n_sections : SectionCounts, n_sents : SentenceCounts,
          section_headers : HeaderCounts, words : WordCounts,
          verb_count : VerbCounts, metrics_count : MetricCounts,
          skills_by_category : SkillsSheets, keyword : KeywordOutcomes]

\* the keyword block, from how it ended
KeywordFrom(outcome) ==
    IF outcome.kind = "skipped" THEN KeywordNotAsked
    ELSE IF outcome.kind = "raised" THEN KeywordFailed
    ELSE KeywordOf(outcome.cos, outcome.missing_terms)

\* the record calculate_ats_score builds from the measures m
ScoresFrom(m) ==
    ScoreRecord(FormatOf(m.n_sections, m.n_sents, m.section_headers),
                ContentOf(m.words, m.verb_count, m.metrics_count),
                SkillsBlock(m.skills_by_category),
                KeywordFrom(m.keyword),
                m.skills_by_category).scores

RulesInit ==
    /\ pc = "measured"
    /\ file = NoneRecord
    /\ job_description = ""
    /\ fpDown = FALSE
    /\ hashSeed = 0
    /\ nCalls = 0
    /\ parsed_data = NoneRecord
    /\ trace = <<>>
    /\ messages = <<>>
    /\ rescored = NoneRecord
    /\ parsed_resume = NoneRecord
    /\ measures \in Measures
    /\ sheet = NoneRecord
    /\ parser = ParserAttributes
    /\ heap = ParserHeap
    /\ calls = <<>>
    /\ uploads = 0

\* the rules of calculate_ats_score, from the format block to the trailing rules
ApplyRules ==
    /\ pc = "measured"
    /\ pc' = "scored"
    /\ sheet' = ScoresFrom(measures)
    /\ nCalls' = 1
    /\ UNCHANGED <<file, job_description, fpDown, hashSeed, parsed_data, trace,
                   messages, rescored, parsed_resume, measures, objects, uploads>>

RulesNext == ApplyRules

RulesSpec == RulesInit /\ [][RulesNext]_vars

-----------------------------------------------------------------------------
(* Calls of extract_sections, extract_skills and calculate_ats_score on one  *)
(* parser, interleaved statement by statement.  A list, set or dict is an    *)
(* object of the heap and a variable holds a reference to it, so that two    *)
(* names for one object, and a change made through one of them, show.        *)

\* calls in progress at the same time
MaxCalls == 2

\* the texts and job descriptions of the calls
CallTexts == {"Skills\npython java"}

CallJobDescriptions == {None, "aws Python"}

Methods == {"extract_sections", "extract_skills", "calculate_ats_score"}

\* the set a reference to a set stands for, and the sets of a dict of sets
SetAt(h, ref) == h[ref].items

SetsAt(h, ref) == [category \in DOMAIN h[ref].items |-> SetAt(h, h[ref].items[category])]

\* a method is called
Invoke(method, text, jd) ==
    /\ pc = "serving"
    /\ Len(calls) < MaxCalls
    /\ method # "calculate_ats_score" => jd = None
    /\ calls' = Append(calls, [method |-> method, text |-> text, jd |-> jd,
                               pc |-> "called", local |-> 0, result |-> 0,
                               messages |-> <<>>])
    /\ UNCHANGED <<pc, file, job_description, fpDown, hashSeed, nCalls, parsed_data,
                   trace, messages, rescored, parsed_resume, measures, sheet,
                   parser, heap, uploads>>

\* call c is a call of method at position at
At(c, method, at) ==
    /\ pc = "serving"
    /\ calls[c].method = method
    /\ calls[c].pc = at

\* call c moves on, with the heap h
Goes(c, to, local, h) ==
    /\ calls' = [calls EXCEPT ![c].pc = to, ![c].local = local,
                              ![c].result = IF to = "returned" THEN local ELSE 0]
    /\ heap' = h
    /\ UNCHANGED <<pc, file, job_description, fpDown, hashSeed, nCalls, parsed_data,
                   trace, messages, rescored, parsed_resume, measures, sheet, parser,
                   uploads>>

\* variant of Detect: each set of SKILLS_DB is narrowed in place to the skills
\* of the text, and the record refers to these sets
DetectInPlace(c) ==
    /\ At(c, "calculate_ats_score", "called")
    /\ LET base == Len(heap)
           text_lower == Lower(calls[c].text)
           narrowed == [r \in 1..Len(heap) |->
                          IF r \in {heap[parser.SKILLS_DB].items[category] :
                                       category \in DOMAIN SKILLS_DB}
                          THEN SetObject({skill \in heap[r].items : Contains(text_lower, skill)})
                          ELSE heap[r]]
       IN  Goes(c, "format", base + 2,
                narrowed
                \o <<ListObject(<<>>),
                     DictObject([format_score |-> 0, content_score |-> 0,
                                 skills_score |-> 0, keyword_score |-> 0,
                                 relevance_score |-> 0, total_score |-> 0,
                                 feedback |-> base + 1,
                                 detected_skills |-> parser.SKILLS_DB])>>)

\* calculate_ats_score up to the dict `scores`: the set comprehensions make
\* one new set per category, the dict comprehension a new dict, `[]` a new list
Detect(c) ==
    /\ At(c, "calculate_ats_score", "called")
    /\ LET base == Len(heap)
           text_lower == Lower(calls[c].text)
           skills_db == heap[parser.SKILLS_DB].items
       IN  Goes(c, "format", base + Len(Categories) + 3,
                heap
                \o [i \in 1..Len(Categories) |->
                       SetObject({skill \in SetAt(heap, skills_db[Categories[i]]) :
                                     Contains(text_lower, skill)})]
                \o <<DictObject([category \in DOMAIN skills_db |->
                        base + (CHOOSE i \in 1..Len(Categories) : Categories[i] = category)]),
                     ListObject(<<>>),
                     DictObject([format_score |-> 0, content_score |-> 0,
                                 skills_score |-> 0, keyword_score |-> 0,
                                 relevance_score |-> 0, total_score |-> 0,
                                 feedback |-> base + Len(Categories) + 2,
                                 detected_skills |-> base + Len(Categories) + 1])>>)

\* scores[field] = max(0, points) after scores['feedback'].append(...) for
\* the rules of one block that fired
Scored(c, to, field, block) ==
    LET scores == calls[c].local
    IN  Goes(c, to, scores,
             [heap EXCEPT ![scores].items[field] = block.points,
                          ![heap[scores].items.feedback].items = @ \o block.feedback])

ScoreFormat(c) ==
    /\ At(c, "calculate_ats_score", "format")
    /\ Scored(c, "content", "format_score", FormatBlock(calls[c].text))

ScoreContent(c) ==
    /\ At(c, "calculate_ats_score", "content")
    /\ Scored(c, "skills", "content_score", ContentBlock(calls[c].text))

\* the skills block reads skills_by_category
ScoreSkills(c) ==
    /\ At(c, "calculate_ats_score", "skills")
    /\ Scored(c, "keyword", "skills_score",
              SkillsBlock(SetsAt(heap, heap[calls[c].local].items.detected_skills)))

\* the keyword block; its warning is shown to the user of the call
ScoreKeyword(c) ==
    /\ At(c, "calculate_ats_score", "keyword")
    /\ LET k == KeywordBlock(calls[c].text, calls[c].jd)
           scores == calls[c].local
       IN  /\ calls' = [calls EXCEPT ![c].pc = "total", ![c].messages = @ \o k.messages]
           /\ heap' = [heap EXCEPT ![scores].items.keyword_score = k.points,
                                   ![heap[scores].items.feedback].items = @ \o k.feedback]
    /\ UNCHANGED <<pc, file, job_description, fpDown, hashSeed, nCalls, parsed_data,
                   trace, messages, rescored, parsed_resume, measures, sheet, parser,
                   uploads>>

\* total_score, the two trailing rules and `return scores`
ScoreTotal(c) ==
    /\ At(c, "calculate_ats_score", "total")
    /\ LET sc == heap[calls[c].local].items
           total == sc.format_score + sc.content_score + sc.skills_score + sc.keyword_score
       IN  Scored(c, "returned", "total_score",
                  [points |-> total, feedback |-> TotalFeedback(total)])

\* extract_skills: `skills = set()`
NewSkills(c) ==
    /\ At(c, "extract_skills", "called")
    /\ Goes(c, "tokens", Len(heap) + 1, Append(heap, SetObject({})))

\* the loop over the tokens: skills.add(token.text)
AddTokens(c) ==
    /\ At(c, "extract_skills", "tokens")
    /\ Goes(c, "chunks", calls[c].local,
            [heap EXCEPT ![calls[c].local].items =
                @ \cup {tok \in SeqToSet(Tokens(Lower(calls[c].text))) :
                           tok \in SetAt(heap, parser.ALL_SKILLS)}])

\* the loop over the noun chunks, and `return skills`
AddChunks(c) ==
    /\ At(c, "extract_skills", "chunks")
    /\ Goes(c, "returned", calls[c].local,
            [heap EXCEPT ![calls[c].local].items =
                @ \cup {phrase \in NounChunkTexts(Lower(calls[c].text)) :
                           phrase \in SetAt(heap, parser.ALL_SKILLS)}])

\* extract_sections: `sections = {}` filled by the loop over the lines
NewSections(c) ==
    /\ At(c, "extract_sections", "called")
    /\ Goes(c, "degree", Len(heap) + 1, Append(heap, DictObject(Segment(calls[c].text))))

\* degree mining, and `return sections`
AddDegree(c) ==
    /\ At(c, "extract_sections", "degree")
    /\ Goes(c, "returned", calls[c].local,
            [heap EXCEPT ![calls[c].local].items = MineDegree(@)])

CallsInit ==
    /\ pc = "serving"
    /\ file = NoneRecord
    /\ job_description = ""
    /\ fpDown = FALSE
    /\ hashSeed = 0
    /\ nCalls = 0
    /\ parsed_data = NoneRecord
    /\ trace = <<>>
    /\ messages = <<>>
    /\ rescored = NoneRecord
    /\ parsed_resume = NoneRecord
    /\ measures = NoneRecord
    /\ sheet = NoneRecord
    /\ parser = ParserAttributes
    /\ heap = ParserHeap
    /\ calls = <<>>
    /\ uploads = 0

CallsNext ==
    \/ \E method \in Methods : \E text \in CallTexts : \E jd \in CallJobDescriptions :
          Invoke(method, text, jd)
    \/ \E c \in DOMAIN calls :
          \/ Detect(c)
          \/ ScoreFormat(c)
          \/ ScoreContent(c)
          \/ ScoreSkills(c)
          \/ ScoreKeyword(c)
          \/ ScoreTotal(c)
          \/ NewSkills(c)
          \/ AddTokens(c)
          \/ AddChunks(c)
          \/ NewSections(c)
          \/ AddDegree(c)

CallsSpec == CallsInit /\ [][CallsNext]_vars

-----------------------------------------------------------------------------
(* Properties *)

\* the score records the state holds
ScoresHeld ==
    (IF parsed_data # NoneRecord THEN {parsed_data.scores} ELSE {})
    \cup (IF rescored # NoneRecord THEN {rescored.scores} ELSE {})

SubScoreSum(sc) == sc.format_score + sc.content_score + sc.skills_score + sc.keyword_score

StartsWith(s, prefix) == Slice(s, 1, Len(prefix)) = prefix

HasKeywordsLine(sc) ==
    \E i \in 1..Len(sc.feedback) : StartsWith(sc.feedback[i], FbKeywords)

\* the text get_parsed_data handed back to the handler, "" for None
ReturnedText == IF parsed_data = NoneRecord THEN "" ELSE parsed_data.full_text

Readers == {"pdfplumber", "PyPDF2", "docx"}

\* C1: every score record has total_score = format_score + content_score +
\* skills_score + keyword_score, with format_score in 0..20, content_score in
\* 0..30, skills_score in 0..25, keyword_score in 0..25 and total_score in
\* 0..100, whether it was computed without a job description, from the
\* similarity or after the similarity computation failed.
C1_TotalIsSumOfSubScores ==
    \A sc \in ScoresHeld :
        /\ sc.total_score = SubScoreSum(sc)
        /\ sc.format_score \in 0..20
        /\ sc.content_score \in 0..30
        /\ sc.skills_score \in 0..25
        /\ sc.keyword_score \in 0..25
        /\ sc.total_score \in 0..100

\* a record scored from a similarity strictly between 0 and 1
C1_Witness ==
    /\ pc = "done"
    /\ parsed_data # NoneRecord
    /\ Truthy(job_description)
    /\ "fit_transform" \in SeqToSet(trace)
    /\ KeywordWarning \notin SeqToSet(messages)
    /\ parsed_data.scores.keyword_score \in 1..24
    /\ parsed_data.scores.total_score = SubScoreSum(parsed_data.scores)

NonBlankLines(text) ==
    LET stripped == [i \in 1..Len(SplitOn(text, "\n")) |-> Strip(SplitOn(text, "\n")[i])]
        IsLine(l) == l # ""
    IN  SelectSeq(stripped, IsLine)

\* the lines of the contents of the sections cut from the text (the derived
\* entry "degree" is not one of them)
RECURSIVE ContentLinesFrom(_, _)
ContentLinesFrom(sections, i) ==
    IF i > Len(sections.keys) THEN <<>>
    ELSE (IF sections.keys[i] = "degree" THEN <<>> ELSE SplitOn(sections.val[i], "\n"))
         \o ContentLinesFrom(sections, i + 1)

Occurrences(q, x) == Cardinality({i \in 1..Len(q) : q[i] = x})

\* C3: every non-blank line of the text appears in exactly one section's
\* content of the map extract_sections returns: none is dropped and none
\* appears twice, lines under a repeated header included.  The property is
\* stated here for the lines that are not headers: a header line becomes the
\* key of the section it opens and is in no content at all, so that the
\* lines left are those whose loss is a loss of text.
C3_EveryLineInOneSection ==
    parsed_data # NoneRecord =>
        \A l \in SeqToSet(NonBlankLines(parsed_data.full_text)) :
            ~IsHeaderLine(Lower(l)) =>
                Occurrences(ContentLinesFrom(parsed_data.sections, 1), l)
                    = Occurrences(NonBlankLines(parsed_data.full_text), l)

\* C4: no skill is in the detected set of two categories; the five sets of
\* the lexicon are pairwise disjoint and each detected set is a subset of
\* the lexicon set of its own category.
C4_CategoriesDisjoint ==
    /\ \A c1, c2 \in DOMAIN SKILLS_DB :
          c1 # c2 => SKILLS_DB[c1] \cap SKILLS_DB[c2] = {}
    /\ \A sc \in ScoresHeld :
          /\ DOMAIN sc.detected_skills = DOMAIN SKILLS_DB
          /\ \A c \in DOMAIN SKILLS_DB : sc.detected_skills[c] \subseteq SKILLS_DB[c]
          /\ \A c1, c2 \in DOMAIN SKILLS_DB :
                c1 # c2 => sc.detected_skills[c1] \cap sc.detected_skills[c2] = {}

\* a record with skills detected in two categories
C4_Witness ==
    /\ parsed_data # NoneRecord
    /\ parsed_data.scores.detected_skills["programming_languages"] # {}
    /\ parsed_data.scores.detected_skills["cloud_devops"] # {}

\* C5: when extraction yields the empty text, get_parsed_data returns None,
\* neither extract_sections, extract_skills nor calculate_ats_score is
\* called, and no score record is built.
C5_EmptyTextGivesNone ==
    (pc = "done" /\ extract_text(file).text = "") =>
        /\ parsed_data = NoneRecord
        /\ parsed_resume = NoneRecord
        /\ nCalls = 0
        /\ SeqToSet(trace) \cap {"extract_sections", "extract_skills",
                                 "calculate_ats_score", "fit_transform"} = {}

\* an empty document: the reader succeeds and yields nothing
C5_Witness ==
    /\ pc = "done"
    /\ file.suffix = ".docx"
    /\ file.docx = Reads(<<>>)
    /\ parsed_data = NoneRecord
    /\ messages = <<CouldNotParseMessage>>

\* the first PDF strategy raised, or returned a blank text
FirstStrategyFails ==
    \/ ReaderRaises(file.pdfplumber)
    \/ Strip(ConcatWithNewlines(file.pdfplumber.items)) = ""

\* C6: for a PDF the second strategy (PyPDF2) is attempted whenever the first
\* (pdfplumber) returns a blank text or raises, and its output is then what
\* extract_text_from_pdf returns; it is not attempted when the first returns
\* a non-blank text.
C6_FallbackWheneverFirstFails ==
    (pc = "done" /\ Lower(file.suffix) = ".pdf") =>
        /\ ("PyPDF2" \in SeqToSet(trace)) <=> FirstStrategyFails
        /\ (FirstStrategyFails /\ ~ReaderRaises(file.pypdf2)) =>
              ReturnedText = ConcatWithNewlines(file.pypdf2.items)

\* a reader that was attempted raised
ExtractionFailed ==
    \/ /\ Lower(file.suffix) = ".pdf"
       /\ \/ ReaderRaises(file.pdfplumber)
          \/ /\ Strip(ConcatWithNewlines(file.pdfplumber.items)) = ""
             /\ ReaderRaises(file.pypdf2)
    \/ /\ Lower(file.suffix) \in {".docx", ".doc"}
       /\ ReaderRaises(file.docx)

\* C7: an extraction failure never escapes extract_text: the caller gets the
\* empty text (none of the text read before the failure) and goes on to its
\* could-not-parse branch, and the extraction error has been shown.
C7_FailureGivesEmptyText ==
    (pc = "done" /\ ExtractionFailed) =>
        /\ ReturnedText = ""
        /\ parsed_data = NoneRecord
        /\ messages = <<IF Lower(file.suffix) = ".pdf" THEN PdfErrorMessage
                        ELSE DocxErrorMessage,
                        CouldNotParseMessage>>
        /\ trace[Len(trace)] \in Readers

\* both PDF strategies fail: the first finds no text, the second raises after
\* it has read a page
C7_Witness ==
    /\ pc = "done"
    /\ Lower(file.suffix) = ".pdf"
    /\ file.pdfplumber = Reads(<<"">>)
    /\ file.pypdf2 = Reads(<<"python java", None>>)
    /\ parsed_data = NoneRecord
    /\ PdfErrorMessage \in SeqToSet(messages)

\* C8: a file whose lower-cased extension is outside {.pdf, .docx, .doc}
\* gets the unsupported-format error, which no extraction failure gives, no
\* text, and no reader is attempted; a .pdf file goes through the PDF
\* readers only, a .docx or .doc file through the DOCX reader only.
C8_DispatchByExtension ==
    pc = "done" =>
        /\ Lower(file.suffix) \notin {".pdf", ".docx", ".doc"} =>
              /\ messages = <<UnsupportedMessage, CouldNotParseMessage>>
              /\ ReturnedText = ""
              /\ SeqToSet(trace) \cap Readers = {}
        /\ Lower(file.suffix) = ".pdf" =>
              /\ "pdfplumber" \in SeqToSet(trace)
              /\ "docx" \notin SeqToSet(trace)
              /\ UnsupportedMessage \notin SeqToSet(messages)
        /\ Lower(file.suffix) \in {".docx", ".doc"} =>
              /\ SeqToSet(trace) \cap Readers = {"docx"}
              /\ UnsupportedMessage \notin SeqToSet(messages)
        /\ UnsupportedMessage \notin {PdfErrorMessage, DocxErrorMessage}

\* a text file is refused
C8_Witness ==
    /\ pc = "done"
    /\ file.suffix = ".txt"
    /\ messages = <<UnsupportedMessage, CouldNotParseMessage>>
    /\ trace = <<"get_parsed_data", "extract_text">>

\* the similarity computation raised while the held record was scored
SimilarityRaised ==
    /\ pc = "done"
    /\ parsed_data # NoneRecord
    /\ Truthy(job_description)
    /\ KeywordWarning \in SeqToSet(messages)

\* the lines the format, content, skills and total rules give
OtherRuleLines ==
    {FbSections, FbBrief, FbHeaders, FbShort, FbLong, FbVerbs, FbMetrics,
     FbSkills, FbDiverse, FbCore, FbReview, FbMajor}

\* the other three sub-scores are those of the call without a job description
OtherScoresUnchanged(sc, base) ==
    /\ sc.format_score = base.format_score
    /\ sc.content_score = base.content_score
    /\ sc.skills_score = base.skills_score
    /\ sc.total_score = base.format_score + base.content_score + base.skills_score + 15

\* the feedback of sc is that of base, the record of the call without a job
\* description, up to the lines of the rules on the total, which follow the
\* total of sc
OnlyOtherRules(sc, base) ==
    sc.feedback =
        SubSeq(base.feedback, 1,
               Len(base.feedback) - Len(TotalFeedback(base.total_score)))
        \o TotalFeedback(sc.total_score)

\* C9 as stated: when a job description is given and the similarity
\* computation raises, a record is still returned, keyword_score is 15, a
\* warning line is appended to the record's feedback list, the other three
\* sub-scores are what they are without the failure and total_score is
\* their sum plus 15.
C9_WarningLineInFeedback ==
    SimilarityRaised =>
        /\ parsed_data.scores.keyword_score = 15
        /\ ~(SeqToSet(parsed_data.scores.feedback) \subseteq OtherRuleLines)
        /\ OtherScoresUnchanged(parsed_data.scores,
                                calculate_ats_score(parsed_data.full_text, None).scores)

\* C9 amended: when a job description is given and the similarity
\* computation raises, a record is still returned, keyword_score is 15, the
\* warning is shown to the user but no line is added to the record's
\* feedback list (it holds the lines of the other rules only), the other
\* three sub-scores are what they are without the failure and total_score
\* is their sum plus 15.
C9_WarningShownNotRecorded ==
    SimilarityRaised =>
        /\ parsed_data.scores.keyword_score = 15
        /\ SeqToSet(parsed_data.scores.feedback) \subseteq OtherRuleLines
        /\ OnlyOtherRules(parsed_data.scores,
                          calculate_ats_score(parsed_data.full_text, None).scores)
        /\ OtherScoresUnchanged(parsed_data.scores,
                                calculate_ats_score(parsed_data.full_text, None).scores)

\* a resume of stop words only, scored against a job description
C9_Witness ==
    /\ SimilarityRaised
    /\ parsed_data.full_text = "the\n"
    /\ parsed_data.scores.keyword_score = 15
    /\ nCalls = 2

\* C10: for every non-empty resume text, a job description identical to the
\* text gives keyword_score 25 and no missing-keywords feedback line.  The
\* property is stated here for the texts that have a term the vectoriser
\* keeps: for the others the similarity computation raises, which is the
\* case of C9.
C10_IdenticalDescriptionScores25 ==
    (pc = "done" /\ parsed_data # NoneRecord
     /\ job_description = parsed_data.full_text
     /\ Len(Analyze(Lower(parsed_data.full_text))) > 0) =>
        /\ parsed_data.scores.keyword_score = 25
        /\ ~HasKeywordsLine(parsed_data.scores)

\* the rules were run on a text of 50 words without a line that is a header
\* (the map then holds at most the "unknown" block and no line equals a
\* section term), and without a job description
FiftyWordsNoHeader ==
    /\ pc = "scored"
    /\ measures.words = 50
    /\ measures.section_headers = 0
    /\ measures.n_sections <= 1
    /\ measures.keyword.kind = "skipped"

\* C11 as stated: for every text without a section-header line, with 50 words
\* and no job description, format_score <= 10, content_score <= 15,
\* skills_score = 10, keyword_score = 25, total_score <= 60, and the feedback
\* holds the too-short line and the total<70 line.
C11_FiftyWordsScenario ==
    FiftyWordsNoHeader =>
        /\ sheet.format_score <= 10
        /\ sheet.content_score <= 15
        /\ sheet.skills_score = 10
        /\ sheet.keyword_score = 25
        /\ sheet.total_score <= 60
        /\ FbShort \in SeqToSet(sheet.feedback)
        /\ FbReview \in SeqToSet(sheet.feedback)

\* C11 amended: for every such text format_score <= 10, content_score <= 20
\* (<= 15 with fewer than five action verbs), keyword_score = 25 and
\* total_score <= 80; skills_score is 10 when fewer than five skills are
\* detected, a programming language or framework among them; total_score <=
\* 60 when both hold; the feedback holds the too-short line, and the
\* total<70 line exactly when the total is below 70.
C11_FiftyWordsBounds ==
    FiftyWordsNoHeader =>
        /\ sheet.format_score <= 10
        /\ sheet.content_score <= 20
        /\ measures.verb_count < 5 => sheet.content_score <= 15
        /\ (/\ TotalSkills(measures.skills_by_category) < 5
            /\ measures.skills_by_category["programming_languages"]
                 \cup measures.skills_by_category["frameworks"] # {})
              => sheet.skills_score = 10
        /\ sheet.keyword_score = 25
        /\ sheet.total_score <= 80
        /\ (/\ measures.verb_count < 5
            /\ sheet.skills_score = 10) => sheet.total_score <= 60
        /\ FbShort \in SeqToSet(sheet.feedback)
        /\ (FbReview \in SeqToSet(sheet.feedback)) <=> (sheet.total_score < 70)

\* such a text with five action verbs, three metrics and ten skills
C11_Witness ==
    /\ FiftyWordsNoHeader
    /\ measures.verb_count = 5
    /\ measures.metrics_count = 3
    /\ TotalSkills(measures.skills_by_category) = 10
    /\ sheet.content_score = 20
    /\ sheet.skills_score = 25
    /\ sheet.total_score >= 70

\* some degree pattern matches somewhere in s
HasDegreePattern(s) ==
    \E i \in 1..Len(degree_patterns) : HasMatch(degree_patterns[i], s)

\* C12: degree mining runs whenever the section map has a key that contains
\* "education" (such as "education:"), not only for the key "education";
\* when the block under that key holds a degree pattern, a "degree" key is
\* added.
C12_DegreeMinedUnderAnyEducationKey ==
    parsed_data # NoneRecord =>
        \A i \in 1..Len(parsed_data.sections.keys) :
            (/\ parsed_data.sections.keys[i] # "degree"
             /\ Contains(parsed_data.sections.keys[i], "education")
             /\ HasDegreePattern(Lower(parsed_data.sections.val[i])))
                => HasKey(parsed_data.sections, "degree")

\* no period in s between the Python offsets lo (included) and hi (excluded)
NoPeriodIn(s, lo, hi) == \A j \in lo..(hi - 1) : Ch(s, j + 1) # "."

\* d is the trimmed piece of s around the match of literal at offset pos:
\* from just after the last period before the match, or from the start of s,
\* to just before the first period at or after the end of the match, or to
\* the end of s
IsSentenceAround(d, s, pos, literal) ==
    \E a \in 0..pos : \E b \in (pos + Len(literal))..Len(s) :
        /\ a = 0 \/ Ch(s, a) = "."
        /\ NoPeriodIn(s, a, pos)
        /\ b = Len(s) \/ Ch(s, b + 1) = "."
        /\ NoPeriodIn(s, pos + Len(literal), b)
        /\ d = Strip(SubSeq(s, a + 1, b))

\* d is such a piece around some match of a degree pattern in s
IsDegreeSentence(d, s) ==
    \E i \in 1..Len(degree_patterns) : \E k \in 1..Len(degree_patterns[i]) :
        \E pos \in 0..(Len(s) - 1) :
            /\ MatchesAt(s, pos, degree_patterns[i][k])
            /\ IsSentenceAround(d, s, pos, degree_patterns[i][k])

ExampleBlock == "B.S. in Computer Science from State University."

\* C13: when a degree pattern matches in the lower-cased education block, the
\* value under "degree" is the trimmed substring from just after the last
\* period before the match (or the start of the block) to just before the
\* first period at or after the end of the match (or the end of the block);
\* for the block "B.S. in Computer Science from State University." the value
\* contains "b.s. in computer science".
C13_DegreeIsSentenceAroundMatch ==
    (/\ parsed_data # NoneRecord
     /\ HasKey(parsed_data.sections, "education")
     /\ HasDegreePattern(Lower(DictGet(parsed_data.sections, "education")))) =>
        /\ HasKey(parsed_data.sections, "degree")
        /\ IsDegreeSentence(DictGet(parsed_data.sections, "degree"),
                            Lower(DictGet(parsed_data.sections, "education")))
        /\ DictGet(parsed_data.sections, "education") = ExampleBlock =>
              Contains(DictGet(parsed_data.sections, "degree"), "b.s. in computer science")

\* the block of the example has been mined
C13_Witness ==
    /\ pc = "done"
    /\ parsed_data # NoneRecord
    /\ HasKey(parsed_data.sections, "education")
    /\ DictGet(parsed_data.sections, "education") = ExampleBlock
    /\ DictGet(parsed_data.sections, "degree")
          = "b.s. in computer science from state university"

\* the lines of the rules in their order; the missing-keywords line is known
\* by its beginning
RuleLines ==
    << FbSections, FbBrief, FbHeaders, FbShort, FbLong, FbVerbs, FbMetrics,
       FbSkills, FbDiverse, FbCore, FbKeywords, FbLowMatch, FbReview, FbMajor >>

\* the rule a feedback line comes from, 0 for a line of no rule
RuleOf(line) ==
    IF \E r \in 1..Len(RuleLines) : StartsWith(line, RuleLines[r])
    THEN CHOOSE r \in 1..Len(RuleLines) : StartsWith(line, RuleLines[r])
    ELSE 0

\* the rules the measures m and the total trigger
Triggered(m, total_score) ==
    {r \in 1..Len(RuleLines) :
        \/ r = 1 /\ m.n_sections < 4
        \/ r = 2 /\ m.n_sents < 10
        \/ r = 3 /\ m.section_headers < 4
        \/ r = 4 /\ m.words < 300
        \/ r = 5 /\ m.words > 1000
        \/ r = 6 /\ m.verb_count < 5
        \/ r = 7 /\ m.metrics_count < 3
        \/ r = 8 /\ TotalSkills(m.skills_by_category) < 5
        \/ r = 9 /\ TotalSkills(m.skills_by_category) \in 5..9
        \/ r = 10 /\ m.skills_by_category["programming_languages"] = {}
                  /\ m.skills_by_category["frameworks"] = {}
        \/ r = 11 /\ m.keyword.kind = "similarity" /\ m.keyword.missing_terms # <<>>
        \/ r = 12 /\ m.keyword.kind = "similarity"
                  /\ \/ m.keyword.cos.dot = 0
                     \/ 100 * 1600 * m.keyword.cos.dot * m.keyword.cos.dot
                           < 9 * m.keyword.cos.norms
        \/ r = 13 /\ total_score < 70
        \/ r = 14 /\ total_score < 50}

\* C14: the feedback list holds exactly one string per triggered rule and
\* nothing else, in the fixed order: format rules (sections, sentences,
\* headers), content rules (length, action verbs, metrics), skills rules
\* (count, core skills), keyword rules (missing keywords, low match), then
\* the total<70 line, then the total<50 line.
C14_FeedbackInRuleOrder ==
    pc = "scored" =>
        /\ \A i \in 1..Len(sheet.feedback) : RuleOf(sheet.feedback[i]) # 0
        /\ \A i, j \in 1..Len(sheet.feedback) :
              i < j => RuleOf(sheet.feedback[i]) < RuleOf(sheet.feedback[j])
        /\ {RuleOf(sheet.feedback[i]) : i \in 1..Len(sheet.feedback)}
              = Triggered(measures, sheet.total_score)

\* a record with lines of the four blocks, both keyword lines and both
\* lines on the total
C14_Witness ==
    /\ pc = "scored"
    /\ {1, 4, 8, 11, 12, 13, 14}
          \subseteq {RuleOf(sheet.feedback[i]) : i \in 1..Len(sheet.feedback)}
    /\ RuleOf(sheet.feedback[Len(sheet.feedback)]) = 14

\* C15: without a job description keyword_score is exactly 25, no feedback
\* line about keywords (missing keywords, low match, warning) is added and
\* no similarity computation is attempted.
C15_NoJobDescriptionGives25 ==
    (pc = "done" /\ parsed_data # NoneRecord /\ job_description = "") =>
        /\ parsed_data.scores.keyword_score = 25
        /\ \A i \in 1..Len(parsed_data.scores.feedback) :
              /\ ~StartsWith(parsed_data.scores.feedback[i], FbKeywords)
              /\ parsed_data.scores.feedback[i] \notin {FbLowMatch, KeywordWarning}
        /\ KeywordWarning \notin SeqToSet(messages)
        /\ "fit_transform" \notin SeqToSet(trace)

\* a resume with skills, scored once and without a job description
C15_Witness ==
    /\ pc = "done"
    /\ job_description = ""
    /\ parsed_data # NoneRecord
    /\ nCalls = 1
    /\ parsed_data.scores.detected_skills["programming_languages"] # {}
    /\ parsed_data.scores.keyword_score = 25

\* the similarity was computed for the stored scores and did not raise
SimilaritySucceeded ==
    /\ pc = "done"
    /\ parsed_data # NoneRecord
    /\ job_description # ""
    /\ "fit_transform" \in SeqToSet(trace)
    /\ KeywordWarning \notin SeqToSet(messages)

\* the similarity of the stored text and the job description
StoredSimilarity == Cosine(Lower(parsed_data.full_text), Lower(job_description))

\* (25 * s)^2 as the fraction num / cos.norms, s the exact similarity
SquareOf25s(cos) == 625 * 1600 * cos.dot * cos.dot

\* the computed similarity is just below the exact one
ComputedBelow(cos) == fpDown /\ cos.same

\* k = floor(25 * s) for the computed similarity s: the exact one, or a value
\* just below it
IsFloorOf25s(cos, k) ==
    IF cos.dot = 0 THEN k = 0
    ELSE IF ComputedBelow(cos)
    THEN /\ k * k < (SquareOf25s(cos) + cos.norms - 1) \div cos.norms
         /\ (SquareOf25s(cos) + cos.norms - 1) \div cos.norms <= (k + 1) * (k + 1)
    ELSE /\ k * k <= SquareOf25s(cos) \div cos.norms
         /\ SquareOf25s(cos) \div cos.norms < (k + 1) * (k + 1)

\* C16: with a job description and a similarity s that was computed without
\* an error, keyword_score is floor(s * 25): a whole number in 0..25, and 25
\* only when s = 1.
C16_KeywordIsFloorOf25s ==
    SimilaritySucceeded =>
        /\ parsed_data.scores.keyword_score \in 0..25
        /\ IsFloorOf25s(StoredSimilarity, parsed_data.scores.keyword_score)
        /\ parsed_data.scores.keyword_score = 25 =>
              /\ SquareOf25s(StoredSimilarity) = 625 * StoredSimilarity.norms
              /\ ~ComputedBelow(StoredSimilarity)

\* a similarity strictly between two whole numbers of points
C16_Witness ==
    /\ SimilaritySucceeded
    /\ nCalls = 2
    /\ parsed_data.scores.keyword_score \in 1..23
    /\ SquareOf25s(StoredSimilarity) % StoredSimilarity.norms # 0

ParsedFields == {"full_text", "sections", "skills", "word_count", "scores"}

PositionsOf(q, x) == {i \in 1..Len(q) : q[i] = x}

\* the steps of get_parsed_data in the trace of the handler: extract_text and
\* the readers it tries (a PDF is rewound between the two), then segmentation, flat skill extraction and the scorer, which
\* computes no similarity
ParsedInOrder ==
    /\ trace[1] = "get_parsed_data"
    /\ trace[2] = "extract_text"
    /\ Cardinality(PositionsOf(trace, "extract_text")) = 1
    /\ \E i \in 3..(Len(trace) - 3) :
          /\ \A j \in 3..(i - 1) : trace[j] \in Readers \cup {"seek(0)"}
          /\ trace[i] = "extract_sections"
          /\ trace[i + 1] = "extract_skills"
          /\ trace[i + 2] = "calculate_ats_score"
          /\ trace[i + 3] \in {"calculate_ats_score", "store"}
          /\ PositionsOf(trace, "extract_sections") = {i}
          /\ PositionsOf(trace, "extract_skills") = {i + 1}

\* the caller scored full_text again, with the job description, and replaced
\* scores and nothing else
ScoresReplaced(returned) ==
    /\ Cardinality(PositionsOf(trace, "calculate_ats_score")) = 2
    /\ parsed_data.scores
         = calculate_ats_score(returned.full_text, job_description).scores
    /\ \A field \in ParsedFields \ {"scores"} : parsed_data[field] = returned[field]

\* C17: for a file with a non-empty extracted text get_parsed_data extracts
\* once, then segments, then extracts the flat skills, then scores without a
\* job description; the record has exactly the fields full_text, sections,
\* skills, word_count, scores, with keyword_score 25; a caller with a job
\* description replaces scores by scoring full_text again with it.
C17_ParsedDataStepsAndFields ==
    (pc = "done" /\ extract_text(file).text # "") =>
        /\ parsed_data # NoneRecord
        /\ ParsedInOrder
        /\ DOMAIN get_parsed_data(file).value = ParsedFields
        /\ DOMAIN parsed_data = ParsedFields
        /\ get_parsed_data(file).value.scores.keyword_score = 25
        /\ IF job_description = ""
           THEN /\ parsed_data = get_parsed_data(file).value
                /\ Cardinality(PositionsOf(trace, "calculate_ats_score")) = 1
           ELSE ScoresReplaced(get_parsed_data(file).value)

\* a resume rescored with a job description that changes the keyword score
C17_Witness ==
    /\ pc = "done"
    /\ parsed_data # NoneRecord
    /\ job_description # ""
    /\ nCalls = 2
    /\ parsed_data.word_count >= 3
    /\ parsed_data.scores.keyword_score < 25
    /\ get_parsed_data(file).value.scores.keyword_score = 25

\* line i of the stripped non-blank lines L has a section term somewhere in
\* its lower-cased text
HeaderAt(L, i) == \E t \in SeqToSet(SECTIONS) : Contains(Lower(L[i]), t)

\* a block is a longest run of lines without a header; it starts at b
BlockStarts(L) == {b \in 1..Len(L) : ~HeaderAt(L, b) /\ (b = 1 \/ HeaderAt(L, b - 1))}

BlockEnd(L, b) == MaxOf({e \in b..Len(L) : \A j \in b..e : ~HeaderAt(L, j)})

BlockText(L, b) == Join(SubSeq(L, b, BlockEnd(L, b)), "\n")

\* the key of the block: the header line just before it, lower-cased, or
\* "unknown" for the block at the beginning of the text
KeyOf(L, b) == IF b = 1 THEN "unknown" ELSE Lower(L[b - 1])

\* the map holds the blocks of L under their keys, the later block where two
\* blocks have the same key, and nothing else but the derived "degree"
HoldsBlocksOf(sections, L) ==
    /\ Cardinality(SeqToSet(sections.keys)) = Len(sections.keys)
    /\ SeqToSet(sections.keys) \ {"degree"} = {KeyOf(L, b) : b \in BlockStarts(L)}
    /\ \A b \in BlockStarts(L) :
          (\A later \in BlockStarts(L) : later > b => KeyOf(L, later) # KeyOf(L, b))
              => DictGet(sections, KeyOf(L, b)) = BlockText(L, b)

\* C18: a non-blank line is a header exactly when its lower-cased text
\* contains a section term (also inside a longer word); a header stores the
\* content gathered so far, if any, under the previous key, and the whole
\* lower-cased, stripped header line becomes the key; the other lines are
\* joined by newlines into the current block; the content before the first
\* header is under "unknown"; the last block is stored at the end.
C18_SectionsAreBlocksUnderHeaders ==
    parsed_data # NoneRecord =>
        HoldsBlocksOf(parsed_data.sections, NonBlankLines(parsed_data.full_text))

\* a text that begins without a header, with a header that holds a section
\* term inside a longer word and a header without content
C18_Witness ==
    /\ parsed_data # NoneRecord
    /\ HasKey(parsed_data.sections, "unknown")
    /\ HasKey(parsed_data.sections, "inexperienced staff")
    /\ DictGet(parsed_data.sections, "inexperienced staff") = "java"
    /\ ~HasKey(parsed_data.sections, "projects")
    /\ DictGet(parsed_data.sections, "skills") = "sql"

\* the number of detected skills over the five categories
DetectedTotal(detected) ==
    Cardinality(detected["programming_languages"]) + Cardinality(detected["frameworks"])
    + Cardinality(detected["databases"]) + Cardinality(detected["cloud_devops"])
    + Cardinality(detected["ai_ml"])

\* p: 15 below five skills, 10 for five to nine, 0 from ten on
TotalDeduction(n) == IF n < 5 THEN 15 ELSE IF n <= 9 THEN 10 ELSE 0

\* q: 5 when no programming language and no framework was detected
CoreDeduction(detected) ==
    IF detected["programming_languages"] = {} /\ detected["frameworks"] = {} THEN 5 ELSE 0

\* C19: skills_score = 25 - p - q, p from the total number of detected skills
\* and q from the two core categories, each deducted whatever the other; a
\* text with no detected skill scores 5.
C19_SkillsScoreIs25MinusPMinusQ ==
    pc = "scored" =>
        /\ sheet.skills_score
             = 25 - TotalDeduction(DetectedTotal(sheet.detected_skills))
                  - CoreDeduction(sheet.detected_skills)
        /\ DetectedTotal(sheet.detected_skills) = 0 => sheet.skills_score = 5

\* five skills, none of them a programming language or a framework: both
\* deductions apply, 10 and 5
C19_Witness ==
    /\ pc = "scored"
    /\ DetectedTotal(sheet.detected_skills) = 5
    /\ sheet.detected_skills["programming_languages"] = {}
    /\ sheet.detected_skills["frameworks"] = {}
    /\ sheet.skills_score = 10

\* the distinct sections segmentation detects in the lines L: the keys its
\* blocks are stored under
SegmentedSections(L) == {KeyOf(L, b) : b \in BlockStarts(L)}

\* the lines whose stripped, lower-cased text is a section term
ExactHeaderLines(text) ==
    {i \in 1..Len(SplitOn(text, "\n")) :
        \E t \in SeqToSet(SECTIONS) : Lower(Strip(SplitOn(text, "\n")[i])) = t}

Minus5If(rule) == IF rule THEN 5 ELSE 0

\* C20: format_score is 20 minus 5 for each of three rules, each evaluated
\* whatever the others: fewer than 4 distinct sections detected by
\* segmentation, fewer than 10 sentences, fewer than 4 lines that are equal,
\* stripped and lower-cased, to a section term (a header that only contains
\* a term, such as "education:", does not count).
C20_FormatScoreThreeRules ==
    parsed_data # NoneRecord =>
        parsed_data.scores.format_score
            = 20 - Minus5If(Cardinality(SegmentedSections(NonBlankLines(parsed_data.full_text))) < 4)
                 - Minus5If(SentenceCount(Tokens(Lower(parsed_data.full_text))) < 10)
                 - Minus5If(Cardinality(ExactHeaderLines(parsed_data.full_text)) < 4)

\* the places of the text where a digit stands just before the literal
PlacesDigitBefore(text, literal) ==
    {i \in 1..Len(text) :
        Ch(text, i) \in DigitChars /\ Slice(text, i + 1, i + Len(literal)) = literal}

\* the places of the text where a digit stands just after the literal
PlacesDigitAfter(text, literal) ==
    {i \in 1..Len(text) :
        Slice(text, i, i + Len(literal) - 1) = literal
        /\ Ch(text, i + Len(literal)) \in DigitChars}

\* the matches of the four metric patterns in the text: percentages, dollar
\* figures, "N years" and "N+"
MetricMatches(text) ==
      Cardinality(PlacesDigitBefore(text, "%"))
    + Cardinality(PlacesDigitAfter(text, "$"))
    + Cardinality(PlacesDigitBefore(Lower(text), " years"))
    + Cardinality(PlacesDigitBefore(text, "+"))

WordsOf(text) == Len(SplitWs(text))

\* C21: content_score is 30 minus 10 for fewer than 300 words or else 5 for
\* more than 1000, minus 10 for fewer than 5 tokens in the action-verb list,
\* minus 5 for fewer than 3 matches of the metric patterns; a text with three
\* percentage figures and no other metric keeps the 5 points.
C21_ContentScoreRules ==
    parsed_data # NoneRecord =>
        parsed_data.scores.content_score
            = 30 - (IF WordsOf(parsed_data.full_text) < 300 THEN 10
                    ELSE IF WordsOf(parsed_data.full_text) > 1000 THEN 5 ELSE 0)
                 - (IF Cardinality({i \in 1..Len(Tokens(Lower(parsed_data.full_text))) :
                          Tokens(Lower(parsed_data.full_text))[i] \in action_verbs}) < 5
                    THEN 10 ELSE 0)
                 - (IF MetricMatches(parsed_data.full_text) < 3 THEN 5 ELSE 0)

\* the non-stopword, non-punctuation tokens of the job description that are
\* absent from the lower-cased text of the resume
AbsentKeyTerms ==
    {t \in SeqToSet(Tokens(Lower(job_description))) :
        /\ ~IsStopToken(t)
        /\ ~IsPunctToken(t)
        /\ ~Contains(Lower(parsed_data.full_text), t)}

AbsentLongKeyTerms == {t \in AbsentKeyTerms : Len(t) > 3}

\* the places of the missing-keywords line and of the low-match line
KeywordsLinePlaces(feedback) ==
    {i \in 1..Len(feedback) : StartsWith(feedback[i], FbKeywords)}

LowMatchPlaces(feedback) == PositionsOf(feedback, FbLowMatch)

\* the terms a missing-keywords line lists
ListedTerms(line) ==
    LET pieces == SplitOn(SubSeq(line, Len(FbKeywords) + 1, Len(line)), ",")
    IN  [i \in 1..Len(pieces) |-> Strip(pieces[i])]

\* the computed similarity is below 0.3
BelowThreeTenths(cos) ==
    \/ cos.dot = 0
    \/ 100 * 1600 * cos.dot * cos.dot < 9 * cos.norms
    \/ 100 * 1600 * cos.dot * cos.dot = 9 * cos.norms /\ ComputedBelow(cos)

\* the feedback has one missing-keywords line exactly when a term of absent
\* is there to list; the line lists up to five of them, each once, and stands
\* before the low-match line, which is there exactly below 0.3
KeywordFeedbackFor(absent, feedback) ==
    /\ Cardinality(KeywordsLinePlaces(feedback)) = (IF absent # {} THEN 1 ELSE 0)
    /\ \A i \in KeywordsLinePlaces(feedback) :
          /\ Len(ListedTerms(feedback[i])) <= 5
          /\ Len(ListedTerms(feedback[i])) = Cardinality(SeqToSet(ListedTerms(feedback[i])))
          /\ SeqToSet(ListedTerms(feedback[i])) \subseteq absent
          /\ \A j \in LowMatchPlaces(feedback) : i < j
    /\ Cardinality(LowMatchPlaces(feedback))
         = (IF BelowThreeTenths(StoredSimilarity) THEN 1 ELSE 0)

\* C22: with a job description and a similarity computed without an error,
\* a missing-keywords line is appended if and only if some non-stopword,
\* non-punctuation token of the job description, of whatever length, is
\* absent from the lower-cased resume text; it lists at most 5 such terms,
\* each absent from the text, and precedes the low-match line, which is
\* appended exactly when the similarity is below 0.3.
C22_MissingKeywordsAnyLength ==
    SimilaritySucceeded => KeywordFeedbackFor(AbsentKeyTerms, parsed_data.scores.feedback)

\* C22, for the terms the code lists: the absent tokens of more than three
\* characters.  An absent token of three characters or fewer ("aws") is
\* never listed and does not bring the line about.
C22_MissingKeywordsLongerThan3 ==
    SimilaritySucceeded => KeywordFeedbackFor(AbsentLongKeyTerms, parsed_data.scores.feedback)

\* seven long terms of the job description are absent and five are listed,
\* before the low-match line
C22_Witness ==
    /\ SimilaritySucceeded
    /\ Cardinality(AbsentLongKeyTerms) > 5
    /\ \E i \in KeywordsLinePlaces(parsed_data.scores.feedback) :
          /\ Len(ListedTerms(parsed_data.scores.feedback[i])) = 5
          /\ (i + 1) \in LowMatchPlaces(parsed_data.scores.feedback)

\* the offsets of s where degree pattern i matches
MatchPlaces(i, s) ==
    {pos \in 0..(Len(s) - 1) :
        \E k \in 1..Len(degree_patterns[i]) : MatchesAt(s, pos, degree_patterns[i][k])}

\* the patterns that match somewhere in s
MatchingPatterns(s) == {i \in 1..Len(degree_patterns) : MatchPlaces(i, s) # {}}

\* d is the sentence around the first occurrence, in s, of pattern i
IsSentenceOfFirstOccurrence(d, s, i) ==
    \E k \in 1..Len(degree_patterns[i]) :
        /\ MatchesAt(s, MinOf(MatchPlaces(i, s)), degree_patterns[i][k])
        /\ IsSentenceAround(d, s, MinOf(MatchPlaces(i, s)), degree_patterns[i][k])

EducationLower == Lower(DictGet(parsed_data.sections, "education"))

\* C23: the degree patterns are tried in their order and the first occurrence
\* of the first pattern that matches is used, even when a pattern later in
\* the order matches earlier in the block; when no pattern matches the map
\* has no "degree" key.
C23_FirstPatternInPriorityOrder ==
    (parsed_data # NoneRecord /\ HasKey(parsed_data.sections, "education")) =>
        IF MatchingPatterns(EducationLower) = {}
        THEN ~HasKey(parsed_data.sections, "degree")
        ELSE /\ HasKey(parsed_data.sections, "degree")
             /\ IsSentenceOfFirstOccurrence(DictGet(parsed_data.sections, "degree"),
                                            EducationLower,
                                            MinOf(MatchingPatterns(EducationLower)))

\* "degree in" stands at the beginning of the block and the first pattern
\* matches later, in another sentence: the degree is that later sentence
C23_Witness ==
    /\ parsed_data # NoneRecord
    /\ HasKey(parsed_data.sections, "education")
    /\ MatchingPatterns(EducationLower) = {1, 3}
    /\ MinOf(MatchPlaces(3, EducationLower)) < MinOf(MatchPlaces(1, EducationLower))
    /\ DictGet(parsed_data.sections, "degree") = "holds phd"

\* a block that only the third pattern matches
C23_ThirdPatternUsed ==
    /\ parsed_data # NoneRecord
    /\ HasKey(parsed_data.sections, "education")
    /\ MatchingPatterns(EducationLower) = {3}
    /\ DictGet(parsed_data.sections, "degree") = "degree in art"

\* the calls that have returned, and those of them that returned a score record
Returned == {c \in DOMAIN calls : calls[c].pc = "returned"}

ReturnedScores == {c \in Returned : calls[c].method = "calculate_ats_score"}

\* the value a returned call handed back, the objects it refers to included
ValueOf(c) ==
    IF calls[c].method = "calculate_ats_score"
    THEN [heap[calls[c].result].items EXCEPT
             !.feedback = heap[@].items,
             !.detected_skills = SetsAt(heap, @)]
    ELSE heap[calls[c].result].items

\* the value the method returns for the arguments of call c when it runs alone
AloneValueOf(c) ==
    CASE calls[c].method = "calculate_ats_score"
            -> calculate_ats_score(calls[c].text, calls[c].jd).scores
      [] calls[c].method = "extract_skills" -> extract_skills(calls[c].text)
      [] calls[c].method = "extract_sections" -> extract_sections(calls[c].text)

\* the objects of the lexicon: those the parser's attributes lead to
LexiconObjects ==
    {parser.SECTIONS, parser.SKILLS_DB, parser.ALL_SKILLS}
    \cup {heap[parser.SKILLS_DB].items[category] : category \in DOMAIN SKILLS_DB}

\* the objects the score record of call c refers to: its feedback list, its
\* detected_skills dict and the sets of that dict
OwnObjects(c) ==
    {calls[c].result, heap[calls[c].result].items.feedback,
     heap[calls[c].result].items.detected_skills}
    \cup {heap[heap[calls[c].result].items.detected_skills].items[category] :
             category \in DOMAIN SKILLS_DB}

\* C24: however the calls of extract_sections, extract_skills and
\* calculate_ats_score on one parser are interleaved, the lexicon is as
\* __init__ made it, every returned call has the result it has when run
\* alone, and the feedback list and detected_skills sets of a score record
\* are objects of that call alone: no other record refers to them and none
\* is an object of the lexicon.
C24_CallsDoNotInterfere ==
    pc = "serving" =>
        /\ parser = ParserAttributes
        /\ \A ref \in 1..Len(ParserHeap) : heap[ref] = ParserHeap[ref]
        /\ \A c \in Returned : ValueOf(c) = AloneValueOf(c)
        /\ \A c \in ReturnedScores :
              /\ OwnObjects(c) \cap LexiconObjects = {}
              /\ Cardinality(OwnObjects(c)) = Len(Categories) + 3
              /\ \A d \in ReturnedScores : c # d => OwnObjects(c) \cap OwnObjects(d) = {}

\* two calls of calculate_ats_score that ran at the same time have returned,
\* one of them with a job description, each with skills detected
C24_Witness ==
    /\ pc = "serving"
    /\ Cardinality(ReturnedScores) = 2
    /\ \E c, d \in ReturnedScores :
          /\ calls[c].jd = None
          /\ calls[d].jd # None
          /\ ValueOf(c).feedback # ValueOf(d).feedback
          /\ ValueOf(c).detected_skills["programming_languages"] = {"python", "java"}

\* C25: whenever the second strategy (PyPDF2) runs, the stream has been
\* rewound to its start after the first strategy (pdfplumber) finished and
\* before the second reads: the second never reads from the position the
\* first left.
C25_RewoundBeforeSecondStrategy ==
    \A i \in PositionsOf(trace, "PyPDF2") :
        /\ i > 2
        /\ trace[i - 1] = "seek(0)"
        /\ trace[i - 2] = "pdfplumber"

\* pdfplumber gave a blank text and PyPDF2, after the rewind, gave the text
\* of the record
C25_Witness ==
    /\ pc = "done"
    /\ parsed_data # NoneRecord
    /\ PositionsOf(trace, "PyPDF2") # {}
    /\ PositionsOf(trace, "seek(0)") # {}
    /\ parsed_data.full_text = ConcatWithNewlines(file.pypdf2.items)
    /\ Strip(parsed_data.full_text) # ""

\* the handler's step for a file get_parsed_data returns None for: the
\* could-not-parse message is shown, the stored parsed_resume stays, and
\* neither the scorer nor the AI analysis is called
NoneIsNotStored ==
    (pc = "ready" /\ pc' = "done" /\ get_parsed_data(file).value = NoneRecord) =>
        /\ parsed_data' = NoneRecord
        /\ CouldNotParseMessage \in SeqToSet(messages')
        /\ parsed_resume' = parsed_resume
        /\ SeqToSet(trace') \cap {"calculate_ats_score", "store", "ai_analysis"} = {}

\* parsed_resume changes only in a step of the handler, to the complete
\* record it got, rescored with the job description when there is one
OnlyCompleteRecordStored ==
    parsed_resume' # parsed_resume =>
        /\ pc = "ready" /\ pc' = "done"
        /\ parsed_resume' # NoneRecord
        /\ parsed_resume' = parsed_data'
        /\ DOMAIN parsed_resume' = ParsedFields
        /\ \A field \in ParsedFields \ {"scores"} :
              parsed_resume'[field] = get_parsed_data(file).value[field]
        /\ parsed_resume'.scores
             = calculate_ats_score(parsed_resume'.full_text,
                                   IF job_description = "" THEN None ELSE job_description).scores

\* C26: when get_parsed_data returns None the user is shown the
\* could-not-parse message, the parsed_resume stored before is left as it
\* is, and neither the rescoring nor the AI analysis is called; parsed_resume
\* is overwritten only by a complete record, after its rescoring with the
\* job description.
C26_NoneLeavesStoredRecord == [][NoneIsNotStored /\ OnlyCompleteRecordStored]_vars

\* the second file of the session could not be parsed and the record of the
\* first is still stored
C26_Witness ==
    /\ pc = "done"
    /\ uploads = 2
    /\ parsed_data = NoneRecord
    /\ CouldNotParseMessage \in SeqToSet(messages)
    /\ parsed_resume # NoneRecord
    /\ parsed_resume.full_text = "Skills\npython java\n"

\* the skills calculate_ats_score detected, over all categories
DetectedUnion(detected) == UNION {detected[category] : category \in DOMAIN detected}

LexiconEntries == UNION {SKILLS_DB[category] : category \in DOMAIN SKILLS_DB}

\* C27: for one text, every skill of the flat extract_skills is a lexicon
\* entry and is among the detected_skills of calculate_ats_score; the
\* converse need not hold.
C27_FlatSkillsAmongDetected ==
    parsed_data # NoneRecord =>
        /\ parsed_data.skills \subseteq LexiconEntries
        /\ parsed_data.skills \subseteq DetectedUnion(parsed_data.scores.detected_skills)

\* "java" is detected inside "javascript" and is not a flat skill
C27_Witness ==
    /\ parsed_data # NoneRecord
    /\ {"javascript", "aws"} \subseteq parsed_data.skills
    /\ "java" \in DetectedUnion(parsed_data.scores.detected_skills) \ parsed_data.skills

\* the two words of a lexicon entry on two lines are no flat skill
C27_WordsOnTwoLines ==
    /\ parsed_data # NoneRecord
    /\ parsed_data.full_text = "sql\nserver\n"
    /\ "sql server" \notin parsed_data.skills

\* the keys of the blocks of L, block by block
BlockKeys(L) ==
    [k \in 1..Cardinality(BlockStarts(L)) |-> KeyOf(L, Sorted(BlockStarts(L))[k])]

\* the keys of the map that segmentation made
SegmentKeys(sections) ==
    LET FromSegmentation(key) == key # "degree"
    IN  SelectSeq(sections.keys, FromSegmentation)

\* two blocks of L with content under headers of the same lower-cased text
RepeatedHeaders(L) ==
    {p \in BlockStarts(L) \X BlockStarts(L) :
        p[1] > 1 /\ p[1] < p[2] /\ KeyOf(L, p[1]) = KeyOf(L, p[2])}

\* C28: of two blocks that follow headers of the same lower-cased trimmed
\* text, the map keeps the content of the later one alone under that key,
\* and the key stays where it was first inserted.
C28_LaterBlockWinsKeyStays ==
    parsed_data # NoneRecord =>
        /\ \A p \in RepeatedHeaders(NonBlankLines(parsed_data.full_text)) :
              (\A q \in RepeatedHeaders(NonBlankLines(parsed_data.full_text)) :
                  q[1] = p[1] => q[2] <= p[2])
                  => DictGet(parsed_data.sections, KeyOf(NonBlankLines(parsed_data.full_text), p[1]))
                        = BlockText(NonBlankLines(parsed_data.full_text), p[2])
        /\ SegmentKeys(parsed_data.sections)
              = Distinct(BlockKeys(NonBlankLines(parsed_data.full_text)))

\* "Skills" with "python", then "Projects", then "SKILLS" with "java"
C28_Witness ==
    /\ parsed_data # NoneRecord
    /\ RepeatedHeaders(NonBlankLines(parsed_data.full_text)) # {}
    /\ parsed_data.sections.keys = <<"skills", "projects">>
    /\ parsed_data.sections.val = <<"java", "web">>

\* the header lines of L
HeaderLines(L) == {h \in 1..Len(L) : HeaderAt(L, h)}

\* the header lines of L with a line of content just after them
HeadersWithContent(L) == {h \in HeaderLines(L) : h < Len(L) /\ ~HeaderAt(L, h + 1)}

\* C29: every value segmentation stores is non-empty: a header with no
\* content line before the next header or the end brings no key, "unknown"
\* is a key only if a content line stands before the first header, and the
\* keys, "degree" aside, are at most one more than the header lines.
C29_StoredValuesNonEmpty ==
    parsed_data # NoneRecord =>
        /\ \A i \in 1..Len(parsed_data.sections.keys) : parsed_data.sections.val[i] # ""
        /\ \A key \in SeqToSet(SegmentKeys(parsed_data.sections)) \ {"unknown"} :
              \E h \in HeadersWithContent(NonBlankLines(parsed_data.full_text)) :
                  key = Lower(NonBlankLines(parsed_data.full_text)[h])
        /\ HasKey(parsed_data.sections, "unknown") =>
              /\ Len(NonBlankLines(parsed_data.full_text)) > 0
              /\ ~HeaderAt(NonBlankLines(parsed_data.full_text), 1)
        /\ Len(SegmentKeys(parsed_data.sections))
              <= Cardinality(HeaderLines(NonBlankLines(parsed_data.full_text))) + 1

\* a text that begins with a header and has a header without content: no
\* "unknown", no key for that header
C29_Witness ==
    /\ parsed_data # NoneRecord
    /\ HeaderLines(NonBlankLines(parsed_data.full_text))
          \ HeadersWithContent(NonBlankLines(parsed_data.full_text)) # {}
    /\ HeaderAt(NonBlankLines(parsed_data.full_text), 1)
    /\ ~HasKey(parsed_data.sections, "unknown")
    /\ Len(SegmentKeys(parsed_data.sections))
          < Cardinality(HeaderLines(NonBlankLines(parsed_data.full_text)))

\* C30: in every record of calculate_ats_score the format, content and
\* skills scores are at least 5 each (the floor at 0 decides nothing) and the
\* total is in 15..100; the "significant improvements" line, when present, is
\* the last line of the feedback and comes just after the "professional
\* review" line.
C30_SubScoresAtLeast5 ==
    pc = "scored" =>
        /\ sheet.format_score \in 5..20
        /\ sheet.content_score \in 5..30
        /\ sheet.skills_score \in 5..25
        /\ sheet.total_score \in 15..100
        /\ \A i \in PositionsOf(sheet.feedback, FbMajor) :
              /\ i = Len(sheet.feedback)
              /\ i > 1
              /\ sheet.feedback[i - 1] = FbReview

\* the lowest record: 5, 5, 5 and a similarity of 0, with both lines at the end
C30_Witness ==
    /\ pc = "scored"
    /\ sheet.format_score = 5
    /\ sheet.content_score = 5
    /\ sheet.skills_score = 5
    /\ sheet.keyword_score = 0
    /\ sheet.total_score = 15
    /\ sheet.feedback[Len(sheet.feedback)] = FbMajor

\* the highest record
C30_FullMarks ==
    /\ pc = "scored"
    /\ sheet.total_score = 100
    /\ sheet.feedback = <<>>

====
